---- MODULE Spec2Model ----
(***************************************************************************)
(* Model of the docmem hierarchical node store (static/js/docmem.js):      *)
(* the rows of the shared `nodes` table and the Docmem operations that     *)
(* read and write them.                                                    *)
(*                                                                         *)
(* order_value is a REAL column.  It is modelled in fixed point: the       *)
(* integer k stands for the key k / Scale, and a division rounds to the    *)
(* nearest representable key (ties to even) as an IEEE division does.      *)
(* Node ids (randomString(8)) are modelled as the naturals 1, 2, ... in    *)
(* creation order, which is also the rowid order SQLite uses to break      *)
(* ties in ORDER BY order_value.  NoId stands for a NULL parent_id.        *)
(***************************************************************************)
EXTENDS Integers, Sequences, FiniteSets, TLC

VARIABLES nodes, nextId, last, calls,
          sharedDatabase, databaseInitPromise, inits, docmems,
          now, trial, chat

\* The module-level state of the shared database and the Docmem objects built on it.
boot == <<sharedDatabase, databaseInitPromise, inits, docmems>>

vars == <<nodes, nextId, last, calls, sharedDatabase, databaseInitPromise, inits, docmems,
          now, trial, chat>>

\* ------------------------------------------------------------------ bounds
MaxNodes == 4
MaxKey == 3
MaxCalls == 4
Scale == 10

Ids == 1..MaxNodes
NoId == 0
RootId == 1
\* The empty string, which docmem-create accepts as a root id.  It is a
\* string like any other to SQLite and falsy to JavaScript, as null is.
EmptyId == -1
Truthy(id) == id # NoId /\ id # EmptyId
\* The ids a caller passes: ids of nodes, ids of no node, the empty string.
ArgIds == Ids \cup {EmptyId}
One == Scale
KeyRange == (0 - MaxKey * Scale)..(MaxKey * Scale)

Contents == {"", "hello"}
GoodContext == [contextType |-> "memory", contextName |-> "k", contextValue |-> "v"]
EmptyContext == [contextType |-> "", contextName |-> "k", contextValue |-> "v"]
Contexts == {GoodContext, EmptyContext}
\* _createRoot defaults
RootContext == [contextType |-> "root", contextName |-> "purpose", contextValue |-> "document"]
MaxBudget == 3
MaxDocmems == 3
MaxInits == 3
MaxTime == 1
MinBits == 6
MaxCommands == 2
MaxSends == 2
MaxStarts == 2
MaxBits == 10
\* No iteration-count comparison is under way.
NoTrial == [lo |-> 0, hi |-> 0,
            chainKey |-> 0, chainCount |-> 0, chainDone |-> TRUE,
            midKey |-> 0, midCount |-> 0, midDone |-> TRUE]
\* The chat page as loaded: api and chatSession are null, isProcessing is
\* false, no call of the model is awaited, no handler has run.
NoChat == [api |-> FALSE, chatSession |-> FALSE, isProcessing |-> FALSE,
           awaiting |-> <<>>, apiCalls |-> 0, sends |-> 0, starting |-> 0,
           starts |-> 0, event |-> "none", modelCalls |-> 0]

\* ------------------------------------------------------------ Node class
\* Node constructor guard: all three context fields must be truthy.
ContextOk(c) == c.contextType # "" /\ c.contextName # "" /\ c.contextValue # ""

\* Node._countTokens, fallback branch: ceil(length / 4), 0 for empty text.
_countTokens(text) == IF text = "" THEN 0 ELSE (Len(text) + 3) \div 4

\* new Node(id, parentId, text, order, null, null, null, ctx...); now is what
\* new Date().toISOString() returns, in milliseconds.
NewNode(parentId, text, order, c) ==
    [parentId |-> parentId, text |-> text, order |-> order,
     tokenCount |-> _countTokens(text),
     createdAt |-> now, updatedAt |-> now,
     contextType |-> c.contextType, contextName |-> c.contextName,
     contextValue |-> c.contextValue]

\* ------------------------------------------------------- call outcomes
Throw(db, e) == [db |-> db, result |-> e, ret |-> NoId]
Return(db, v) == [db |-> db, result |-> "ok", ret |-> v]

\* --------------------------------------------------------- storage reads
\* _rowToNode runs the Node constructor, which throws on an empty context
\* field stored in the row.
RowReadable(db, id) == ContextOk(db[id])

\* _getNode followed by the null test of _requireNode.
_requireNode(db, id) ==
    IF id \notin DOMAIN db THEN "NotFound"
    ELSE IF ~RowReadable(db, id) THEN "ValidationError"
    ELSE "ok"

ChildIds(db, p) == {i \in DOMAIN db : db[i].parentId = p}

\* _getChildren builds a Node for every child row.
_getChildren(db, p) ==
    IF \E c \in ChildIds(db, p) : ~RowReadable(db, c) THEN "ValidationError" ELSE "ok"

\* ORDER BY order_value; equal keys come out in rowid order and the stable
\* sort of _getSortedChildren keeps that order.
\* Mutant of RowBefore: ORDER BY order_value DESC.
BadRowBefore(db, i, j) ==
    \/ db[i].order > db[j].order
    \/ db[i].order = db[j].order /\ i < j

RowBefore(db, i, j) ==
    \/ db[i].order < db[j].order
    \/ db[i].order = db[j].order /\ i < j

RECURSIVE SortIds(_, _)
SortIds(db, S) ==
    IF S = {} THEN <<>>
    ELSE LET m == CHOOSE x \in S : \A y \in S \ {x} : RowBefore(db, x, y)
         IN <<m>> \o SortIds(db, S \ {m})

_getSortedChildren(db, p) == SortIds(db, ChildIds(db, p))

SetMax(S) == CHOOSE x \in S : \A y \in S : y <= x
SetMin(S) == CHOOSE x \in S : \A y \in S : x <= y

\* -------------------------------------------------------- ordering keys
\* n / d rounded to the nearest integer, ties to even.
RoundDiv(n, d) ==
    LET q == n \div d
        r == n - q * d
    IN IF 2 * r < d THEN q
       ELSE IF 2 * r > d THEN q + 1
       ELSE IF q % 2 = 0 THEN q ELSE q + 1

\* Mutant of _calculateOrderForAppend: the + 1.0 is dropped.
BadCalculateOrderForAppend(db, p) ==
    IF ChildIds(db, p) = {} THEN One
    ELSE SetMax({db[c].order : c \in ChildIds(db, p)})

_calculateOrderForAppend(db, p) ==
    (IF ChildIds(db, p) = {} THEN 0
     ELSE SetMax({db[c].order : c \in ChildIds(db, p)})) + One

Index(seq, id) == CHOOSE i \in 1..Len(seq) : seq[i] = id

\* Midpoint interpolation between two sibling keys, the scheme the 80/20
\* interpolation is measured against.
Midpoint(a, b) == RoundDiv(a + b, 2)

\* (siblingOrder * 4 + targetOrder * 1) / 5, or targetOrder - 1.0 for the first child.
_calculateOrderForBefore(db, target, sortedChildren, targetIdx) ==
    IF targetIdx > 1
    THEN RoundDiv(db[sortedChildren[targetIdx - 1]].order * 4 + db[target].order, 5)
    ELSE db[target].order - One

\* Mutant of _calculateOrderForAfter: the new key is the midpoint.
BadCalculateOrderForAfter(db, target, sortedChildren, targetIdx) ==
    IF targetIdx < Len(sortedChildren)
    THEN RoundDiv(db[target].order + db[sortedChildren[targetIdx + 1]].order, 2)
    ELSE db[target].order + One

\* (targetOrder * 4 + siblingOrder * 1) / 5, or targetOrder + 1.0 for the last child.
_calculateOrderForAfter(db, target, sortedChildren, targetIdx) ==
    IF targetIdx < Len(sortedChildren)
    THEN RoundDiv(db[target].order * 4 + db[sortedChildren[targetIdx + 1]].order, 5)
    ELSE db[target].order + One

\* --------------------------------------------------------- storage writes
\* Mutant of _insertNode: the siblings at or after the new key are renumbered.
BadInsertNode(db, id, node) ==
    (id :> node) @@
    [i \in DOMAIN db |->
        IF db[i].parentId = node.parentId /\ db[i].order >= node.order
        THEN [db[i] EXCEPT !.order = @ + 1]
        ELSE db[i]]

\* INSERT INTO nodes (...) VALUES (...)
_insertNode(db, id, node) == (id :> node) @@ db

\* Mutant of _updateNode: the statement also rewrites created_at.
BadUpdateNode(db, id, text, tokenCount) ==
    [db EXCEPT ![id].text = text, ![id].tokenCount = tokenCount,
               ![id].updatedAt = now, ![id].createdAt = now]

\* UPDATE nodes SET text, token_count, updated_at WHERE id
_updateNode(db, id, text, tokenCount) ==
    [db EXCEPT ![id].text = text, ![id].tokenCount = tokenCount, ![id].updatedAt = now]

\* UPDATE nodes SET context_type, context_name, context_value, updated_at WHERE id
_updateNodeContext(db, id, c) ==
    [db EXCEPT ![id].contextType = c.contextType,
               ![id].contextName = c.contextName,
               ![id].contextValue = c.contextValue,
               ![id].updatedAt = now]

\* Mutant of _updateNodeParentAndOrder: the children of the moved row are
\* handed to the new parent as well.
BadUpdateNodeParentAndOrder(db, id, newParentId, newOrder) ==
    [i \in DOMAIN db |->
        IF i = id
        THEN [db[i] EXCEPT !.parentId = newParentId, !.order = newOrder, !.updatedAt = now]
        ELSE IF db[i].parentId = id THEN [db[i] EXCEPT !.parentId = newParentId]
        ELSE db[i]]

\* UPDATE nodes SET parent_id, order_value, updated_at WHERE id
_updateNodeParentAndOrder(db, id, newParentId, newOrder) ==
    [db EXCEPT ![id].parentId = newParentId, ![id].order = newOrder, ![id].updatedAt = now]

\* The connection never runs PRAGMA foreign_keys = ON, and SQLite enforces
\* foreign keys (ON DELETE CASCADE included) only on connections that do.
ForeignKeysEnforced == FALSE

RECURSIVE CascadeSet(_, _)
CascadeSet(db, S) ==
    LET T == S \cup {i \in DOMAIN db : db[i].parentId \in S}
    IN IF T = S THEN S ELSE CascadeSet(db, T)

\* DELETE FROM nodes WHERE id = ?
DeleteRow(db, id) ==
    LET gone == IF ForeignKeysEnforced THEN CascadeSet(db, {id}) ELSE {id}
    IN [i \in DOMAIN db \ gone |-> db[i]]

\* ------------------------------------------------------------ tree walks
\* Pre-order walk used by _serializeRecursive, _structureRecursive and
\* _getAllDescendants.  depth is the number of stack frames left: a path
\* longer than the number of rows revisits a row, so the JavaScript
\* recursion never returns and ends in a RangeError (stack overflow).
RECURSIVE Walk(_, _, _), WalkList(_, _, _, _)
Walk(db, n, depth) ==
    IF depth = 0 THEN [st |-> "RangeError", seq |-> <<>>]
    ELSE IF _getChildren(db, n) # "ok" THEN [st |-> _getChildren(db, n), seq |-> <<n>>]
    ELSE LET r == WalkList(db, _getSortedChildren(db, n), 1, depth - 1)
         IN [st |-> r.st, seq |-> <<n>> \o r.seq]

WalkList(db, s, i, depth) ==
    IF i > Len(s) THEN [st |-> "ok", seq |-> <<>>]
    ELSE LET a == Walk(db, s[i], depth)
         IN IF a.st # "ok" THEN a
            ELSE LET b == WalkList(db, s, i + 1, depth)
                 IN [st |-> b.st, seq |-> a.seq \o b.seq]

StackDepth(db) == Cardinality(DOMAIN db) + 1

Range(s) == {s[i] : i \in 1..Len(s)}

\* _getAllDescendants(nodeId, result): the walk without the start row.
_getAllDescendants(db, n) ==
    LET w == Walk(db, n, StackDepth(db))
    IN [st |-> w.st, ids |-> Range(w.seq) \ {n}]

_validateCycleBeforeMove(db, nodeId, targetParentId) ==
    IF nodeId = targetParentId THEN "CycleError"
    ELSE IF _getAllDescendants(db, nodeId).st # "ok" THEN _getAllDescendants(db, nodeId).st
    ELSE IF targetParentId \in _getAllDescendants(db, nodeId).ids THEN "CycleError"
    ELSE "ok"

_validateCycleBeforeMoveSibling(db, nodeId, target) ==
    IF nodeId = target THEN "CycleError"
    ELSE IF ~Truthy(db[target].parentId) THEN "ValidationError"
    ELSE IF _getAllDescendants(db, nodeId).st # "ok" THEN _getAllDescendants(db, nodeId).st
    ELSE IF db[target].parentId \in _getAllDescendants(db, nodeId).ids THEN "CycleError"
    ELSE "ok"

\* ----------------------------------------------------------- operations
\* Mutant of append_child: the row is written before the context is validated.
BadAppendChild(db, newId, node_id, c, content) ==
    IF _requireNode(db, node_id) # "ok" THEN Throw(db, _requireNode(db, node_id))
    ELSE IF _getChildren(db, node_id) # "ok" THEN Throw(db, _getChildren(db, node_id))
    ELSE LET written == _insertNode(db, newId,
                            NewNode(node_id, content, _calculateOrderForAppend(db, node_id), c))
         IN IF ~ContextOk(c) THEN Throw(written, "ValidationError")
            ELSE Return(written, newId)

append_child(db, newId, node_id, c, content) ==
    IF _requireNode(db, node_id) # "ok" THEN Throw(db, _requireNode(db, node_id))
    ELSE IF _getChildren(db, node_id) # "ok" THEN Throw(db, _getChildren(db, node_id))
    ELSE IF ~ContextOk(c) THEN Throw(db, "ValidationError")
    ELSE Return(_insertNode(db, newId,
                    NewNode(node_id, content, _calculateOrderForAppend(db, node_id), c)),
                newId)

insert_before(db, newId, node_id, c, content) ==
    IF _requireNode(db, node_id) # "ok" THEN Throw(db, _requireNode(db, node_id))
    ELSE LET parentId == db[node_id].parentId
             sortedChildren == _getSortedChildren(db, parentId)
             newOrder == _calculateOrderForBefore(db, node_id, sortedChildren,
                                                  Index(sortedChildren, node_id))
         IN IF ~Truthy(parentId) THEN Throw(db, "ValidationError")
            ELSE IF _getChildren(db, parentId) # "ok" THEN Throw(db, _getChildren(db, parentId))
            ELSE IF ~ContextOk(c) THEN Throw(db, "ValidationError")
            ELSE Return(_insertNode(db, newId, NewNode(parentId, content, newOrder, c)), newId)

insert_after(db, newId, node_id, c, content) ==
    IF _requireNode(db, node_id) # "ok" THEN Throw(db, _requireNode(db, node_id))
    ELSE LET parentId == db[node_id].parentId
             sortedChildren == _getSortedChildren(db, parentId)
             newOrder == _calculateOrderForAfter(db, node_id, sortedChildren,
                                                 Index(sortedChildren, node_id))
         IN IF ~Truthy(parentId) THEN Throw(db, "ValidationError")
            ELSE IF _getChildren(db, parentId) # "ok" THEN Throw(db, _getChildren(db, parentId))
            ELSE IF ~ContextOk(c) THEN Throw(db, "ValidationError")
            ELSE Return(_insertNode(db, newId, NewNode(parentId, content, newOrder, c)), newId)

delete(db, node_id) ==
    IF _requireNode(db, node_id) # "ok" THEN Throw(db, _requireNode(db, node_id))
    ELSE Return(DeleteRow(db, node_id), NoId)

\* Mutant of update_content: the text is replaced and the old token_count kept.
BadUpdateContent(db, node_id, content) ==
    IF _requireNode(db, node_id) # "ok" THEN Throw(db, _requireNode(db, node_id))
    ELSE Return(_updateNode(db, node_id, content, db[node_id].tokenCount), node_id)

update_content(db, node_id, content) ==
    IF _requireNode(db, node_id) # "ok" THEN Throw(db, _requireNode(db, node_id))
    ELSE Return(_updateNode(db, node_id, content, _countTokens(content)), node_id)

update_context(db, node_id, c) ==
    IF _requireNode(db, node_id) # "ok" THEN Throw(db, _requireNode(db, node_id))
    ELSE Return(_updateNodeContext(db, node_id, c), node_id)

move_append_child(db, node_id, target_parent_id) ==
    IF _requireNode(db, node_id) # "ok" THEN Throw(db, _requireNode(db, node_id))
    ELSE IF _requireNode(db, target_parent_id) # "ok"
         THEN Throw(db, _requireNode(db, target_parent_id))
    ELSE IF _validateCycleBeforeMove(db, node_id, target_parent_id) # "ok"
         THEN Throw(db, _validateCycleBeforeMove(db, node_id, target_parent_id))
    ELSE IF _getChildren(db, target_parent_id) # "ok"
         THEN Throw(db, _getChildren(db, target_parent_id))
    ELSE Return(_updateNodeParentAndOrder(db, node_id, target_parent_id,
                    _calculateOrderForAppend(db, target_parent_id)),
                node_id)

move_before(db, node_id, target_node_id) ==
    IF _requireNode(db, node_id) # "ok" THEN Throw(db, _requireNode(db, node_id))
    ELSE IF _requireNode(db, target_node_id) # "ok"
         THEN Throw(db, _requireNode(db, target_node_id))
    ELSE IF _validateCycleBeforeMoveSibling(db, node_id, target_node_id) # "ok"
         THEN Throw(db, _validateCycleBeforeMoveSibling(db, node_id, target_node_id))
    ELSE LET targetParentId == db[target_node_id].parentId
             sortedChildren == _getSortedChildren(db, targetParentId)
             newOrder == _calculateOrderForBefore(db, target_node_id, sortedChildren,
                                                  Index(sortedChildren, target_node_id))
         IN IF _getChildren(db, targetParentId) # "ok"
            THEN Throw(db, _getChildren(db, targetParentId))
            ELSE Return(_updateNodeParentAndOrder(db, node_id, targetParentId, newOrder),
                        node_id)

move_after(db, node_id, target_node_id) ==
    IF _requireNode(db, node_id) # "ok" THEN Throw(db, _requireNode(db, node_id))
    ELSE IF _requireNode(db, target_node_id) # "ok"
         THEN Throw(db, _requireNode(db, target_node_id))
    ELSE IF _validateCycleBeforeMoveSibling(db, node_id, target_node_id) # "ok"
         THEN Throw(db, _validateCycleBeforeMoveSibling(db, node_id, target_node_id))
    ELSE LET targetParentId == db[target_node_id].parentId
             sortedChildren == _getSortedChildren(db, targetParentId)
             newOrder == _calculateOrderForAfter(db, target_node_id, sortedChildren,
                                                 Index(sortedChildren, target_node_id))
         IN IF _getChildren(db, targetParentId) # "ok"
            THEN Throw(db, _getChildren(db, targetParentId))
            ELSE Return(_updateNodeParentAndOrder(db, node_id, targetParentId, newOrder),
                        node_id)

\* node_ids.map(id => this._requireNode(id)): the first id that fails decides.
RECURSIVE RequireAll(_, _, _)
RequireAll(db, node_ids, i) ==
    IF i > Len(node_ids) THEN "ok"
    ELSE IF _requireNode(db, node_ids[i]) # "ok" THEN _requireNode(db, node_ids[i])
    ELSE RequireAll(db, node_ids, i + 1)

\* UPDATE nodes SET parent_id = ? WHERE id = ?, for the first k rows of ids.
RECURSIVE Reparent(_, _, _, _)
Reparent(db, ids, k, newParentId) ==
    IF k = 0 THEN db
    ELSE [Reparent(db, ids, k - 1, newParentId) EXCEPT ![ids[k]].parentId = newParentId]

\* Mutant of SummaryOrder: the summary takes the key of the first summarized node.
BadSummaryOrder(minOrder, maxOrder) == minOrder

\* (minOrder + maxOrder) / 2
SummaryOrder(minOrder, maxOrder) == RoundDiv(minOrder + maxOrder, 2)

\* The rows add_summary writes: the insert, then the first k reparents.
SummaryWrites(db, newId, node_ids, content, c, k) ==
    LET parentId == db[node_ids[1]].parentId
        nodeIdsSet == Range(node_ids)
        memoryNodesSorted == SortIds(db, nodeIdsSet)
        minOrder == db[memoryNodesSorted[1]].order
        maxOrder == db[memoryNodesSorted[Len(memoryNodesSorted)]].order
        summaryNode == NewNode(parentId, content, SummaryOrder(minOrder, maxOrder), c)
    IN Reparent(_insertNode(db, newId, summaryNode), memoryNodesSorted, k, newId)

\* Mutant of SummaryChecks: the leaf check is missing.
BadSummaryChecks(db, node_ids, c) ==
    IF Len(node_ids) = 0 THEN "ValidationError"
    ELSE IF RequireAll(db, node_ids, 1) # "ok" THEN RequireAll(db, node_ids, 1)
    ELSE IF Cardinality({db[node_ids[i]].parentId : i \in 1..Len(node_ids)}) # 1
         THEN "ValidationError"
    ELSE IF _requireNode(db, db[node_ids[1]].parentId) # "ok"
         THEN _requireNode(db, db[node_ids[1]].parentId)
    ELSE IF ~ContextOk(c) THEN "ValidationError"
    ELSE "ok"

\* Everything add_summary checks before it writes.
SummaryChecks(db, node_ids, c) ==
    IF Len(node_ids) = 0 THEN "ValidationError"
    ELSE IF RequireAll(db, node_ids, 1) # "ok" THEN RequireAll(db, node_ids, 1)
    ELSE IF \E i \in 1..Len(node_ids) : ChildIds(db, node_ids[i]) # {}
         THEN "ValidationError"
    ELSE IF Cardinality({db[node_ids[i]].parentId : i \in 1..Len(node_ids)}) # 1
         THEN "ValidationError"
    ELSE LET parentId == db[node_ids[1]].parentId
         IN IF _requireNode(db, parentId) # "ok" THEN _requireNode(db, parentId)
            ELSE IF _getChildren(db, parentId) # "ok" THEN _getChildren(db, parentId)
            ELSE IF \E i \in 1..Len(node_ids) : node_ids[i] \notin ChildIds(db, parentId)
                 THEN "ValidationError"
            ELSE IF ~ContextOk(c) THEN "ValidationError"
            ELSE "ok"

add_summary(db, newId, node_ids, content, c) ==
    IF SummaryChecks(db, node_ids, c) # "ok" THEN Throw(db, SummaryChecks(db, node_ids, c))
    ELSE Return(SummaryWrites(db, newId, node_ids, content, c,
                              Cardinality(Range(node_ids))),
                newId)

\* ------------------------------------------------------------ traversals
ReadThrow(e) == [result |-> e, out |-> <<>>]
ReadReturn(s) == [result |-> "ok", out |-> s]

serialize(db, nodeId) ==
    IF ~Truthy(nodeId) THEN ReadThrow("ValidationError")
    ELSE IF _requireNode(db, nodeId) # "ok" THEN ReadThrow(_requireNode(db, nodeId))
    ELSE LET w == Walk(db, nodeId, StackDepth(db))
         IN IF w.st # "ok" THEN ReadThrow(w.st) ELSE ReadReturn(w.seq)

\* The object literal pushed by _structureRecursive.
StructureEntry(db, n) ==
    [id |-> n,
     parentId |-> db[n].parentId,
     order |-> db[n].order,
     tokenCount |-> db[n].tokenCount,
     createdAt |-> db[n].createdAt,
     updatedAt |-> db[n].updatedAt,
     contextType |-> db[n].contextType,
     contextName |-> db[n].contextName,
     contextValue |-> db[n].contextValue]

RECURSIVE _structureRecursive(_, _, _), StructureList(_, _, _, _)
\* Mutant of _structureRecursive: the children are visited before the entry
\* of the node is pushed.
BadStructureRecursive(db, n, depth) ==
    IF depth = 0 THEN [st |-> "RangeError", seq |-> <<>>]
    ELSE IF _getChildren(db, n) # "ok" THEN [st |-> _getChildren(db, n), seq |-> <<>>]
    ELSE LET r == StructureList(db, _getSortedChildren(db, n), 1, depth - 1)
         IN [st |-> r.st, seq |-> r.seq \o <<StructureEntry(db, n)>>]

\* _structureRecursive(node, result): push the entry, then each sorted child.
_structureRecursive(db, n, depth) ==
    IF depth = 0 THEN [st |-> "RangeError", seq |-> <<>>]
    ELSE IF _getChildren(db, n) # "ok"
         THEN [st |-> _getChildren(db, n), seq |-> <<StructureEntry(db, n)>>]
    ELSE LET r == StructureList(db, _getSortedChildren(db, n), 1, depth - 1)
         IN [st |-> r.st, seq |-> <<StructureEntry(db, n)>> \o r.seq]

\* for (const child of sortedChildren) this._structureRecursive(child, result)
StructureList(db, s, i, depth) ==
    IF i > Len(s) THEN [st |-> "ok", seq |-> <<>>]
    ELSE LET a == _structureRecursive(db, s[i], depth)
         IN IF a.st # "ok" THEN a
            ELSE LET b == StructureList(db, s, i + 1, depth)
                 IN [st |-> b.st, seq |-> a.seq \o b.seq]

structure(db, nodeId) ==
    IF ~Truthy(nodeId) THEN ReadThrow("ValidationError")
    ELSE IF _requireNode(db, nodeId) # "ok" THEN ReadThrow(_requireNode(db, nodeId))
    ELSE LET w == _structureRecursive(db, nodeId, StackDepth(db))
         IN IF w.st # "ok" THEN ReadThrow(w.st) ELSE ReadReturn(w.seq)

\* Mutant of Fits: only the running total is compared with the budget.
BadFits(totalTokens, tokenCount, maxTokens) == totalTokens <= maxTokens

\* totalTokens + node.tokenCount <= maxTokens
Fits(totalTokens, tokenCount, maxTokens) == totalTokens + tokenCount <= maxTokens

\* Mutant of ExpandChildren: a child that does not fit is skipped and the
\* later children are still tried.
RECURSIVE BadExpandChildren(_, _, _, _, _)
BadExpandChildren(db, sortedChildren, i, acc, maxTokens) ==
    IF i > Len(sortedChildren) THEN acc
    ELSE IF Fits(acc.totalTokens, db[sortedChildren[i]].tokenCount, maxTokens)
         THEN BadExpandChildren(db, sortedChildren, i + 1,
                  [acc EXCEPT !.result = Append(@, sortedChildren[i]),
                              !.totalTokens = @ + db[sortedChildren[i]].tokenCount],
                  maxTokens)
    ELSE BadExpandChildren(db, sortedChildren, i + 1, acc, maxTokens)

\* Inner loop of step 2: the children of one depth-1 node, until one does not fit.
RECURSIVE ExpandChildren(_, _, _, _, _)
ExpandChildren(db, sortedChildren, i, acc, maxTokens) ==
    IF i > Len(sortedChildren) THEN acc
    ELSE IF Fits(acc.totalTokens, db[sortedChildren[i]].tokenCount, maxTokens)
         THEN ExpandChildren(db, sortedChildren, i + 1,
                  [acc EXCEPT !.result = Append(@, sortedChildren[i]),
                              !.totalTokens = @ + db[sortedChildren[i]].tokenCount],
                  maxTokens)
    ELSE acc

\* Mutant of ExpandLoop: a leaf that does not fit is skipped and the loop goes on.
RECURSIVE BadExpandLoopLeaf(_, _, _, _, _)
BadExpandLoopLeaf(db, sortedDepth1, i, acc, maxTokens) ==
    IF i > Len(sortedDepth1) THEN acc
    ELSE IF acc.totalTokens >= maxTokens THEN acc
    ELSE LET node == sortedDepth1[i]
         IN IF _getChildren(db, node) # "ok" THEN [acc EXCEPT !.st = _getChildren(db, node)]
            ELSE IF ChildIds(db, node) # {}
                 THEN BadExpandLoopLeaf(db, sortedDepth1, i + 1,
                          ExpandChildren(db, _getSortedChildren(db, node), 1, acc, maxTokens),
                          maxTokens)
            ELSE IF Fits(acc.totalTokens, db[node].tokenCount, maxTokens)
                 THEN BadExpandLoopLeaf(db, sortedDepth1, i + 1,
                          [acc EXCEPT !.result = Append(@, node),
                                      !.totalTokens = @ + db[node].tokenCount],
                          maxTokens)
            ELSE BadExpandLoopLeaf(db, sortedDepth1, i + 1, acc, maxTokens)

\* Mutant of ExpandLoop: a truncated list of children ends the whole expansion.
RECURSIVE BadExpandLoopTruncate(_, _, _, _, _)
BadExpandLoopTruncate(db, sortedDepth1, i, acc, maxTokens) ==
    IF i > Len(sortedDepth1) THEN acc
    ELSE IF acc.totalTokens >= maxTokens THEN acc
    ELSE LET node == sortedDepth1[i]
             added == ExpandChildren(db, _getSortedChildren(db, node), 1, acc, maxTokens)
         IN IF _getChildren(db, node) # "ok" THEN [acc EXCEPT !.st = _getChildren(db, node)]
            ELSE IF ChildIds(db, node) # {}
                 THEN IF Len(added.result) - Len(acc.result) < Cardinality(ChildIds(db, node))
                      THEN added
                      ELSE BadExpandLoopTruncate(db, sortedDepth1, i + 1, added, maxTokens)
            ELSE IF Fits(acc.totalTokens, db[node].tokenCount, maxTokens)
                 THEN BadExpandLoopTruncate(db, sortedDepth1, i + 1,
                          [acc EXCEPT !.result = Append(@, node),
                                      !.totalTokens = @ + db[node].tokenCount],
                          maxTokens)
            ELSE acc

\* Outer loop of step 2 over the depth-1 nodes.
RECURSIVE ExpandLoop(_, _, _, _, _)
ExpandLoop(db, sortedDepth1, i, acc, maxTokens) ==
    IF i > Len(sortedDepth1) THEN acc
    ELSE IF acc.totalTokens >= maxTokens THEN acc
    ELSE LET node == sortedDepth1[i]
         IN IF _getChildren(db, node) # "ok" THEN [acc EXCEPT !.st = _getChildren(db, node)]
            ELSE IF ChildIds(db, node) # {}
                 THEN ExpandLoop(db, sortedDepth1, i + 1,
                          ExpandChildren(db, _getSortedChildren(db, node), 1, acc, maxTokens),
                          maxTokens)
            ELSE IF Fits(acc.totalTokens, db[node].tokenCount, maxTokens)
                 THEN ExpandLoop(db, sortedDepth1, i + 1,
                          [acc EXCEPT !.result = Append(@, node),
                                      !.totalTokens = @ + db[node].tokenCount],
                          maxTokens)
            ELSE acc

expandToLength(db, nodeId, maxTokens) ==
    IF ~Truthy(nodeId) THEN ReadThrow("ValidationError")
    ELSE IF _requireNode(db, nodeId) # "ok" THEN ReadThrow(_requireNode(db, nodeId))
    ELSE IF _getChildren(db, nodeId) # "ok" THEN ReadThrow(_getChildren(db, nodeId))
    ELSE LET acc == ExpandLoop(db, _getSortedChildren(db, nodeId), 1,
                               [st |-> "ok", result |-> <<>>, totalTokens |-> 0], maxTokens)
         IN IF acc.st # "ok" THEN ReadThrow(acc.st) ELSE ReadReturn(acc.result)

\* find(node_id) returns the node or null; _rowToNode rebuilds the Node from
\* the row, and the Node constructor throws on an empty context field.
find(db, node_id) ==
    IF node_id \notin DOMAIN db THEN [result |-> "ok", ret |-> NoId]
    ELSE IF ~RowReadable(db, node_id) THEN [result |-> "ValidationError", ret |-> NoId]
    ELSE [result |-> "ok", ret |-> node_id]

\* ------------------------------------------------------- DocmemCommands
MaxFieldLength == 24

\* A value handed to a command as a context field: a string, or something
\* that is no string (null, undefined, a number).
StringValue(str) == [isString |-> TRUE, s |-> str]
NoString == [isString |-> FALSE, s |-> ""]

\* String.prototype.trim, for the blank as the only white space.
RECURSIVE TrimStart(_)
TrimStart(str) ==
    IF Len(str) > 0 /\ Head(str) = " " THEN TrimStart(Tail(str)) ELSE str

RECURSIVE TrimEnd(_)
TrimEnd(str) ==
    IF Len(str) > 0 /\ SubSeq(str, Len(str), Len(str)) = " "
    THEN TrimEnd(SubSeq(str, 1, Len(str) - 1))
    ELSE str

Trim(str) == TrimEnd(TrimStart(str))

\* Mutant of _validateFieldLength: the value is returned as it was passed.
BadValidateFieldLength(value, allowEmpty) ==
    IF ~value.isString THEN [ok |-> FALSE, trimmed |-> ""]
    ELSE IF ~allowEmpty /\ Len(Trim(value.s)) = 0 THEN [ok |-> FALSE, trimmed |-> ""]
    ELSE IF Len(Trim(value.s)) > MaxFieldLength THEN [ok |-> FALSE, trimmed |-> ""]
    ELSE [ok |-> TRUE, trimmed |-> value.s]

\* _validateFieldLength(value, fieldName, commandName, allowEmpty): throws, or
\* returns the trimmed value.
_validateFieldLength(value, allowEmpty) ==
    IF ~value.isString THEN [ok |-> FALSE, trimmed |-> ""]
    ELSE IF ~allowEmpty /\ Len(Trim(value.s)) = 0 THEN [ok |-> FALSE, trimmed |-> ""]
    ELSE IF Len(Trim(value.s)) > MaxFieldLength THEN [ok |-> FALSE, trimmed |-> ""]
    ELSE [ok |-> TRUE, trimmed |-> Trim(value.s)]

\* The three validations every command makes before it calls the Docmem.
FieldsValid(f) == \A k \in 1..3 : _validateFieldLength(f[k], FALSE).ok

Validated(f) ==
    [contextType |-> _validateFieldLength(f[1], FALSE).trimmed,
     contextName |-> _validateFieldLength(f[2], FALSE).trimmed,
     contextValue |-> _validateFieldLength(f[3], FALSE).trimmed]

appendChild(db, newId, nodeId, f, content) ==
    IF ~FieldsValid(f) THEN Throw(db, "ValidationError")
    ELSE append_child(db, newId, nodeId, Validated(f), content)

insertBefore(db, newId, nodeId, f, content) ==
    IF ~FieldsValid(f) THEN Throw(db, "ValidationError")
    ELSE insert_before(db, newId, nodeId, Validated(f), content)

insertAfter(db, newId, nodeId, f, content) ==
    IF ~FieldsValid(f) THEN Throw(db, "ValidationError")
    ELSE insert_after(db, newId, nodeId, Validated(f), content)

updateContext(db, nodeId, f) ==
    IF ~FieldsValid(f) THEN Throw(db, "ValidationError")
    ELSE update_context(db, nodeId, Validated(f))

addSummary(db, newId, f, content, nodeIds) ==
    IF Len(nodeIds) = 0 THEN Throw(db, "ValidationError")
    ELSE IF ~FieldsValid(f) THEN Throw(db, "ValidationError")
    ELSE add_summary(db, newId, nodeIds, content, Validated(f))

\* ------------------------------------------------------------- actions
NoIds == {}

\* node_ids lists are enumerated without repetitions, in ascending id order.
IdList(S) == SortSeq(CHOOSE q \in [1..Cardinality(S) -> S] : Range(q) = S,
                     LAMBDA x, y : x < y)

\* No call is in progress and none has returned since the caller last looked.
NoCall == [op |-> "none", node |-> NoId, target |-> NoId, ids |-> NoIds,
           result |-> "ok", ret |-> NoId, out |-> <<>>]

\* The caller may start a call.
Ready == last = NoCall /\ calls < MaxCalls

\* A synchronous call against the store: the rows it leaves and what it returned or threw.
Call(op, node, target, ids, out) ==
    /\ calls' = calls + 1
    /\ nodes' = out.db
    /\ last' = [op |-> op, node |-> node, target |-> target, ids |-> ids,
                result |-> out.result, ret |-> out.ret, out |-> <<>>]
    /\ nextId' = IF nextId \in DOMAIN out.db THEN nextId + 1 ELSE nextId
    /\ UNCHANGED <<boot, now, trial, chat>>

ReadCall(op, node, budget, out) ==
    /\ calls' = calls + 1
    /\ last' = [op |-> op, node |-> node, target |-> budget, ids |-> NoIds,
                result |-> out.result, ret |-> NoId, out |-> out.out]
    /\ UNCHANGED <<nodes, nextId>>
    /\ UNCHANGED <<boot, now, trial, chat>>

\* Rows created stay within the modelled ids and keys within the modelled range.
WithinBounds(out) ==
    /\ DOMAIN out.db \subseteq ArgIds
    /\ \A i \in DOMAIN out.db : out.db[i].order \in KeyRange

AppendChild ==
    /\ Ready
    /\ \E p \in ArgIds, c \in Contexts, t \in Contents :
        LET out == append_child(nodes, nextId, p, c, t)
        IN WithinBounds(out) /\ Call("append_child", p, NoId, NoIds, out)

InsertBefore ==
    /\ Ready
    /\ \E n \in ArgIds, c \in Contexts, t \in Contents :
        LET out == insert_before(nodes, nextId, n, c, t)
        IN WithinBounds(out) /\ Call("insert_before", n, NoId, NoIds, out)

InsertAfter ==
    /\ Ready
    /\ \E n \in ArgIds, c \in Contexts, t \in Contents :
        LET out == insert_after(nodes, nextId, n, c, t)
        IN WithinBounds(out) /\ Call("insert_after", n, NoId, NoIds, out)

Delete ==
    /\ Ready
    /\ \E n \in ArgIds :
        Call("delete", n, NoId, NoIds, delete(nodes, n))

UpdateContent ==
    /\ Ready
    /\ \E n \in ArgIds, t \in Contents :
        Call("update_content", n, NoId, NoIds, update_content(nodes, n, t))

UpdateContext ==
    /\ Ready
    /\ \E n \in ArgIds, c \in Contexts :
        Call("update_context", n, NoId, NoIds, update_context(nodes, n, c))

MoveAppendChild ==
    /\ Ready
    /\ \E n \in ArgIds, t \in ArgIds :
        LET out == move_append_child(nodes, n, t)
        IN WithinBounds(out) /\ Call("move_append_child", n, t, NoIds, out)

MoveBefore ==
    /\ Ready
    /\ \E n \in ArgIds, t \in ArgIds :
        LET out == move_before(nodes, n, t)
        IN WithinBounds(out) /\ Call("move_before", n, t, NoIds, out)

MoveAfter ==
    /\ Ready
    /\ \E n \in ArgIds, t \in ArgIds :
        LET out == move_after(nodes, n, t)
        IN WithinBounds(out) /\ Call("move_after", n, t, NoIds, out)

AddSummary ==
    /\ Ready
    /\ \E S \in SUBSET ArgIds, c \in Contexts, t \in Contents :
        LET out == add_summary(nodes, nextId, IdList(S), t, c)
        IN WithinBounds(out) /\ Call("add_summary", NoId, NoId, S, out)

Serialize ==
    /\ Ready
    /\ \E n \in ArgIds : ReadCall("serialize", n, 0, serialize(nodes, n))

Structure ==
    /\ Ready
    /\ \E n \in ArgIds : ReadCall("structure", n, 0, structure(nodes, n))

ExpandToLength ==
    /\ Ready
    /\ \E n \in ArgIds, m \in 0..MaxBudget :
        ReadCall("expandToLength", n, m, expandToLength(nodes, n, m))

\* The caller has taken the result of the call; the store stays as the call left it.
Resume ==
    /\ last # NoCall
    /\ last' = NoCall
    /\ UNCHANGED <<nodes, nextId, calls>>
    /\ UNCHANGED <<boot, now, trial, chat>>

\* ------------------------------------------------ shared database start-up
\* sharedDatabase and databaseInitPromise are null (NoDb, NoPromise) or name
\* the run of the initialization closure that created / is the value.
NoDb == 0
NoPromise == 0
Docmems == 1..MaxDocmems

\* inits[a] is how far the a-th run of the initialization closure got:
\* "running" (awaiting initSqlJs), "resolved", or how it failed.
FailedInit == {"notLoaded", "initFailed", "schemaFailed"}
\* The runs that reached `sharedDatabase = new SQL.Database()`.
Created == {a \in DOMAIN inits : inits[a] \in {"resolved", "schemaFailed"}}
Running == {a \in DOMAIN inits : inits[a] = "running"}

\* A Docmem whose constructor has not run yet.
NewDocmem == [pc |-> "new", docmemId |-> NoId, promise |-> NoPromise,
              value |-> NoDb, db |-> NoDb]

\* The root ids Docmems are constructed with.
DocmemIds == {RootId, EmptyId}

\* Mutant of initSharedDatabase: the test of databaseInitPromise is missing.
BadInitSharedDatabase(sd, p) ==
    IF sd # NoDb THEN "value" ELSE "start"

\* What a call of initSharedDatabase does before it returns: hand out the
\* database, hand out the promise in flight, or start the initialization.
initSharedDatabase(sd, p) ==
    IF sd # NoDb THEN "value"
    ELSE IF p # NoPromise THEN "join"
    ELSE "start"

\* _getRootById: the row with this id and a NULL parent_id, read through
\* _rowToNode; "none" when there is no such row.
_getRootById(db, rootId) ==
    IF rootId \notin DOMAIN db \/ db[rootId].parentId # NoId THEN "none"
    ELSE IF ~RowReadable(db, rootId) THEN "ValidationError"
    ELSE "ok"

\* Mutant of _createRoot: the root row is written whether or not one exists.
BadCreateRoot(db, rootId) ==
    Return(_insertNode([i \in DOMAIN db \ {rootId} |-> db[i]], rootId,
                       NewNode(NoId, "", 0, RootContext)), rootId)

\* The rest of _init once this.db is set: look the root up and create it
\* when there is none.  The INSERT fails on the primary key when a row with
\* this id exists that is not a root.
_createRoot(db, rootId) ==
    IF _getRootById(db, rootId) = "ok" THEN Return(db, rootId)
    ELSE IF _getRootById(db, rootId) # "none" THEN Throw(db, _getRootById(db, rootId))
    ELSE IF rootId \in DOMAIN db THEN Throw(db, "StorageError")
    ELSE Return(_insertNode(db, rootId, NewNode(NoId, "", 0, RootContext)), rootId)

\* new Docmem(docmemId): the constructor runs _init up to its await.
Construct ==
    \E c \in Docmems, id \in DocmemIds :
        /\ docmems[c].pc = "new"
        /\ LET how == initSharedDatabase(sharedDatabase, databaseInitPromise)
               started == Len(inits) + 1
           IN /\ how = "start" => Len(inits) < MaxInits
              /\ inits' = IF how = "start" THEN Append(inits, "running") ELSE inits
              /\ databaseInitPromise' = IF how = "start" THEN started ELSE databaseInitPromise
              /\ docmems' = [docmems EXCEPT ![c] =
                    [pc |-> "awaiting",
                     docmemId |-> id,
                     promise |-> IF how = "value" THEN NoPromise
                                 ELSE IF how = "join" THEN databaseInitPromise
                                 ELSE started,
                     value |-> IF how = "value" THEN sharedDatabase ELSE NoDb,
                     db |-> NoDb]]
        /\ UNCHANGED <<trial, chat, now, nodes, nextId, last, calls, sharedDatabase>>

\* initSqlJs resolved; the database and its schema are created and the
\* closure returns sharedDatabase.
InitResolves ==
    \E a \in DOMAIN inits :
        /\ inits[a] = "running"
        /\ inits' = [inits EXCEPT ![a] = "resolved"]
        /\ sharedDatabase' = a
        /\ UNCHANGED <<trial, chat, now, nodes, nextId, last, calls, databaseInitPromise, docmems>>

\* The closure throws: sql.js never loaded (thrown before the try block, the
\* promise stays), initSqlJs rejected, or a schema statement threw after the
\* database was created (the catch block resets databaseInitPromise).
InitRejects ==
    \E a \in DOMAIN inits, how \in FailedInit :
        /\ inits[a] = "running"
        /\ inits' = [inits EXCEPT ![a] = how]
        /\ sharedDatabase' = IF how = "schemaFailed" THEN a ELSE sharedDatabase
        /\ databaseInitPromise' = IF how = "notLoaded" THEN databaseInitPromise ELSE NoPromise
        /\ UNCHANGED <<trial, chat, now, nodes, nextId, last, calls, docmems>>

\* _init resumes with the database: this.db is set and the root is looked
\* up (which throws when the schema was never created) and created if absent.
DocmemReady ==
    \E c \in Docmems :
        /\ docmems[c].pc = "awaiting"
        /\ \/ docmems[c].promise = NoPromise
           \/ docmems[c].promise # NoPromise /\ inits[docmems[c].promise] = "resolved"
        /\ LET v == IF docmems[c].promise = NoPromise THEN docmems[c].value
                    ELSE docmems[c].promise
               root == _createRoot(nodes, docmems[c].docmemId)
           IN IF inits[v] = "resolved"
              THEN /\ docmems' = [docmems EXCEPT
                                    ![c].pc = IF root.result = "ok" THEN "ready" ELSE "failed",
                                    ![c].db = v]
                   /\ nodes' = root.db
              ELSE /\ docmems' = [docmems EXCEPT ![c].pc = "failed", ![c].db = v]
                   /\ nodes' = nodes
        /\ UNCHANGED <<trial, chat, now, nextId, last, calls, sharedDatabase, databaseInitPromise, inits>>

\* _init resumes with the rejection of the promise it awaited.
DocmemFails ==
    \E c \in Docmems :
        /\ docmems[c].pc = "awaiting"
        /\ docmems[c].promise # NoPromise
        /\ inits[docmems[c].promise] \in FailedInit
        /\ docmems' = [docmems EXCEPT ![c].pc = "failed"]
        /\ UNCHANGED <<trial, chat, now, nodes, nextId, last, calls, sharedDatabase, databaseInitPromise, inits>>

\* The page has loaded docmem.js: nothing is initialized, no Docmem exists.
InitBoot ==
    /\ now = 0
    /\ trial = NoTrial
    /\ chat = NoChat
    /\ nodes = <<>>
    /\ nextId = 2
    /\ calls = 0
    /\ last = NoCall
    /\ sharedDatabase = NoDb
    /\ databaseInitPromise = NoPromise
    /\ inits = <<>>
    /\ docmems = [c \in Docmems |-> NewDocmem]

\* A Docmem that is ready is used to replace the text of a node.
ReadyUpdateContent ==
    /\ \E c \in Docmems : docmems[c].pc = "ready"
    /\ UpdateContent

NextBoot ==
    \/ Construct
    \/ InitResolves
    \/ InitRejects
    \/ DocmemReady
    \/ DocmemFails
    \/ ReadyUpdateContent
    \/ Resume

SpecBoot == InitBoot /\ [][NextBoot]_vars

\* The store after new Docmem(id) is ready: the first initialization
\* succeeded, _init found no root and created one.
Init ==
    /\ now = 0
    /\ trial = NoTrial
    /\ chat = NoChat
    /\ nodes = (RootId :> NewNode(NoId, "", 0, RootContext))
    /\ nextId = 2
    /\ calls = 0
    /\ last = NoCall
    /\ sharedDatabase = 1
    /\ databaseInitPromise = 1
    /\ inits = <<"resolved">>
    /\ docmems = [c \in Docmems |->
                    IF c = 1 THEN [pc |-> "ready", docmemId |-> RootId, promise |-> 1,
                                   value |-> NoDb, db |-> 1]
                    ELSE NewDocmem]

Next ==
    \/ AppendChild
    \/ InsertBefore
    \/ InsertAfter
    \/ Delete
    \/ UpdateContent
    \/ UpdateContext
    \/ MoveAppendChild
    \/ MoveBefore
    \/ MoveAfter
    \/ AddSummary
    \/ Serialize
    \/ Structure
    \/ ExpandToLength
    \/ Resume

Spec == Init /\ [][Next]_vars

\* The same, for a document created with the empty string as its root id.
InitEmptyRoot ==
    /\ now = 0
    /\ trial = NoTrial
    /\ chat = NoChat
    /\ nodes = (EmptyId :> NewNode(NoId, "", 0, RootContext))
    /\ nextId = 2
    /\ calls = 0
    /\ last = NoCall
    /\ sharedDatabase = 1
    /\ databaseInitPromise = 1
    /\ inits = <<"resolved">>
    /\ docmems = [c \in Docmems |->
                    IF c = 1 THEN [pc |-> "ready", docmemId |-> EmptyId, promise |-> 1,
                                   value |-> NoDb, db |-> 1]
                    ELSE NewDocmem]

SpecEmptyRoot == InitEmptyRoot /\ [][Next]_vars

\* A millisecond passes between two calls.
Tick ==
    /\ last = NoCall
    /\ now < MaxTime
    /\ now' = now + 1
    /\ UNCHANGED <<nodes, nextId, last, calls, boot, trial, chat>>

\* Runs in which time passes: nodes are created, edited, moved and summarized.
NextClock ==
    \/ AppendChild
    \/ UpdateContent
    \/ UpdateContext
    \/ MoveAppendChild
    \/ MoveBefore
    \/ MoveAfter
    \/ AddSummary
    \/ Resume
    \/ Tick

SpecClock == Init /\ [][NextClock]_vars

\* Runs in which time passes while nodes are created and edited in place.
NextEdit ==
    \/ AppendChild
    \/ UpdateContent
    \/ UpdateContext
    \/ Resume
    \/ Tick

SpecEdit == Init /\ [][NextEdit]_vars

\* ------------------------------------------- iteration-count comparison
\* Two runs between the same bounds lo < hi, hi - lo = 2^bits key units:
\* the forward chain inserts after the most recently created node, whose
\* right-hand sibling is the node at hi; the bisection takes the midpoint of
\* the most recent key and hi. A run is done when the new key coincides with
\* one of its two neighbours.
TrialLows == {0, One, 2 * One}

StartTrial(lo, bits) ==
    [lo |-> lo, hi |-> lo + 2^bits,
     chainKey |-> lo, chainCount |-> 0, chainDone |-> FALSE,
     midKey |-> lo, midCount |-> 0, midDone |-> FALSE]

\* The most recently created node (row 2) and its right-hand sibling (row 3).
TrialStore(a, b) ==
    (2 :> NewNode(RootId, "", a, GoodContext)) @@ (3 :> NewNode(RootId, "", b, GoodContext))

\* The order insert_after computes for a new node after the row keyed a.
ChainKey(a, b) ==
    LET db == TrialStore(a, b)
        sortedChildren == _getSortedChildren(db, RootId)
    IN _calculateOrderForAfter(db, 2, sortedChildren, Index(sortedChildren, 2))

ChainInsert ==
    /\ ~trial.chainDone
    /\ LET new == ChainKey(trial.chainKey, trial.hi)
       IN trial' = IF new = trial.chainKey \/ new = trial.hi
                   THEN [trial EXCEPT !.chainDone = TRUE]
                   ELSE [trial EXCEPT !.chainKey = new, !.chainCount = @ + 1]
    /\ UNCHANGED <<nodes, nextId, last, calls, boot, now, chat>>

MidInsert ==
    /\ ~trial.midDone
    /\ LET new == Midpoint(trial.midKey, trial.hi)
       IN trial' = IF new = trial.midKey \/ new = trial.hi
                   THEN [trial EXCEPT !.midDone = TRUE]
                   ELSE [trial EXCEPT !.midKey = new, !.midCount = @ + 1]
    /\ UNCHANGED <<nodes, nextId, last, calls, boot, now, chat>>

InitTrial ==
    /\ now = 0
    /\ \E lo \in TrialLows, bits \in MinBits..MaxBits : trial = StartTrial(lo, bits)
    /\ chat = NoChat
    /\ nodes = <<>>
    /\ nextId = 2
    /\ calls = 0
    /\ last = NoCall
    /\ sharedDatabase = NoDb
    /\ databaseInitPromise = NoPromise
    /\ inits = <<>>
    /\ docmems = [c \in Docmems |-> NewDocmem]

NextTrial ==
    \/ ChainInsert
    \/ MidInsert

SpecTrial == InitTrial /\ [][NextTrial]_vars

\* ------------------------------------------------ runs through DocmemCommands
\* Values offered as context fields: no string, empty, blank, plain, padded,
\* of the greatest length, padded of the greatest length, one too long.
RawFields ==
    {NoString,
     StringValue(""),
     StringValue("  "),
     StringValue("k"),
     StringValue(" k "),
     StringValue("abcdefghijklmnopqrstuvwx"),
     StringValue(" abcdefghijklmnopqrstuvwx "),
     StringValue("abcdefghijklmnopqrstuvwxy")}

\* One field varies over RawFields, the two others are plain.
RawTriples ==
    UNION {{<<a, StringValue("k"), StringValue("v")>>,
            <<StringValue("memory"), a, StringValue("v")>>,
            <<StringValue("memory"), StringValue("k"), a>>} : a \in RawFields}

\* The caller may issue a command.
CommandReady == last = NoCall /\ calls < MaxCommands

\* A command: the call of the Docmem it wraps, with the fields as passed.
CommandCall(op, node, ids, f, out) ==
    /\ calls' = calls + 1
    /\ nodes' = out.db
    /\ last' = [op |-> op, node |-> node, target |-> NoId, ids |-> ids,
                result |-> out.result, ret |-> out.ret, out |-> <<>>, fields |-> f]
    /\ nextId' = IF nextId \in DOMAIN out.db THEN nextId + 1 ELSE nextId
    /\ UNCHANGED <<boot, now, trial, chat>>

CmdAppendChild ==
    /\ CommandReady
    /\ \E n \in ArgIds, f \in RawTriples :
        LET out == appendChild(nodes, nextId, n, f, "hello")
        IN WithinBounds(out) /\ CommandCall("appendChild", n, NoIds, f, out)

CmdInsertBefore ==
    /\ CommandReady
    /\ \E n \in ArgIds, f \in RawTriples :
        LET out == insertBefore(nodes, nextId, n, f, "hello")
        IN WithinBounds(out) /\ CommandCall("insertBefore", n, NoIds, f, out)

CmdInsertAfter ==
    /\ CommandReady
    /\ \E n \in ArgIds, f \in RawTriples :
        LET out == insertAfter(nodes, nextId, n, f, "hello")
        IN WithinBounds(out) /\ CommandCall("insertAfter", n, NoIds, f, out)

CmdUpdateContext ==
    /\ CommandReady
    /\ \E n \in ArgIds, f \in RawTriples :
        CommandCall("updateContext", n, NoIds, f, updateContext(nodes, n, f))

CmdAddSummary ==
    /\ CommandReady
    /\ \E S \in SUBSET ArgIds, f \in RawTriples :
        LET out == addSummary(nodes, nextId, f, "hello", IdList(S))
        IN WithinBounds(out) /\ CommandCall("addSummary", NoId, S, f, out)

NextCommands ==
    \/ CmdAppendChild
    \/ CmdInsertBefore
    \/ CmdInsertAfter
    \/ CmdUpdateContext
    \/ CmdAddSummary
    \/ Resume

SpecCommands == Init /\ [][NextCommands]_vars

\* Runs that only create nodes: appended, inserted and summary nodes.
NextCreate ==
    \/ AppendChild
    \/ InsertBefore
    \/ InsertAfter
    \/ AddSummary
    \/ Resume

SpecCreate == Init /\ [][NextCreate]_vars

\* Runs that only build the tree and move nodes within it.
NextMove ==
    \/ AppendChild
    \/ MoveAppendChild
    \/ MoveBefore
    \/ MoveAfter
    \/ Resume

SpecMove == Init /\ [][NextMove]_vars

\* ------------------------------------------------- storage failures
\* add_summary issues its writes one statement at a time, outside any
\* transaction: stmt.step() throws when SQLite reports an error, and the
\* statements already executed stay applied.  k of the reparenting UPDATEs
\* succeed before the failing one.
AddSummaryFault ==
    /\ Ready
    /\ \E S \in SUBSET ArgIds, c \in Contexts, t \in Contents :
        /\ SummaryChecks(nodes, IdList(S), c) = "ok"
        /\ \E k \in 0..(Cardinality(S) - 1) :
            LET out == [db |-> SummaryWrites(nodes, nextId, IdList(S), t, c, k),
                        result |-> "StorageError", ret |-> NoId]
            IN WithinBounds(out) /\ Call("add_summary", NoId, NoId, S, out)

NextFault == Next \/ AddSummaryFault

SpecFault == Init /\ [][NextFault]_vars

\* ------------------------------------------------------------ claims
\* A call was made in this step (the caller was ready and a result is recorded).
Called == last = NoCall /\ last' # NoCall
CalledOp(op) == Called /\ last'.op = op

MoveOps == {"move_append_child", "move_before", "move_after"}

\* The rows below n: the least set holding n's children and closed under children.
RECURSIVE BelowFrom(_, _)
BelowFrom(db, S) ==
    LET T == S \cup {i \in DOMAIN db : db[i].parentId \in S}
    IN IF T = S THEN S ELSE BelowFrom(db, T)

Below(db, n) == BelowFrom(db, {i \in DOMAIN db : db[i].parentId = n})

\* Following parent_id from i reaches an absent parent within k steps.
RECURSIVE ReachesRoot(_, _, _)
ReachesRoot(db, i, k) ==
    IF db[i].parentId = NoId THEN TRUE
    ELSE IF db[i].parentId \notin DOMAIN db \/ k = 0 THEN FALSE
    ELSE ReachesRoot(db, db[i].parentId, k - 1)

ChildOrders(db, p) == {db[c].order : c \in {i \in DOMAIN db : db[i].parentId = p}}

\* C1: after any sequence of calls the parent links form a forest: from every
\* stored node the parent_id chain reaches a node with absent parent, and no
\* node is its own parent or ancestor.
C1_Forest ==
    \A i \in DOMAIN nodes :
        /\ ReachesRoot(nodes, i, Cardinality(DOMAIN nodes))
        /\ i \notin Below(nodes, i)

\* C2: move_before / move_after fail with a cycle error and leave the store
\* unchanged whenever target is node, a child of node or a deeper descendant
\* of node (so that the new parent would be node or one of its descendants).
C2_MoveSiblingCycle ==
    [][(/\ Called
        /\ last'.op \in {"move_before", "move_after"}
        /\ last'.node \in DOMAIN nodes
        /\ last'.target \in {last'.node} \cup Below(nodes, last'.node))
       => (last'.result = "CycleError" /\ nodes' = nodes)]_vars

\* C3: move_append_child(A, B) fails with a cycle error when B is A or a
\* descendant of A; otherwise it succeeds and leaves A.parent_id = B and
\* A.order_key = (largest order_key among B's children, or 0) + 1, so that
\* A is the last child of B.
C3_MoveAppendChild ==
    [][(/\ CalledOp("move_append_child")
        /\ last'.node \in DOMAIN nodes
        /\ last'.target \in DOMAIN nodes)
       => LET A == last'.node
              B == last'.target
          IN IF B = A \/ B \in Below(nodes, A)
             THEN last'.result = "CycleError" /\ nodes' = nodes
             ELSE /\ last'.result = "ok"
                  /\ nodes'[A].parentId = B
                  /\ nodes'[A].order =
                        (IF ChildOrders(nodes, B) = {} THEN 0
                         ELSE SetMax(ChildOrders(nodes, B))) + One
                  /\ \A c \in DOMAIN nodes' :
                        (nodes'[c].parentId = B /\ c # A)
                            => nodes'[c].order < nodes'[A].order]_vars

\* C4: after delete(x) succeeds, x and every former descendant of x are
\* absent (find returns absent) and no remaining node refers to a missing parent.
C4_DeleteCascades ==
    [][(CalledOp("delete") /\ last'.result = "ok")
       => /\ \A d \in {last'.node} \cup Below(nodes, last'.node) :
                find(nodes', d) = [result |-> "ok", ret |-> NoId]
          /\ \A i \in DOMAIN nodes' :
                nodes'[i].parentId = NoId \/ nodes'[i].parentId \in DOMAIN nodes']_vars

\* C5: a successful add_summary creates exactly one new node, a child of the
\* shared parent whose order_key is the midpoint (min + max) / 2 of the
\* summarized keys (to the nearest representable key); every summarized node
\* then has the new node as parent and keeps its id, text and order_key, and
\* no other row changes.
C5_SummaryEffect ==
    [][(CalledOp("add_summary") /\ last'.result = "ok")
       => LET S == last'.ids
              s == last'.ret
              lo == SetMin({nodes[m].order : m \in S})
              hi == SetMax({nodes[m].order : m \in S})
          IN /\ s \notin DOMAIN nodes
             /\ DOMAIN nodes' = DOMAIN nodes \cup {s}
             /\ \A m \in S : nodes'[s].parentId = nodes[m].parentId
             /\ 2 * nodes'[s].order - (lo + hi) \in {-1, 0, 1}
             /\ lo <= nodes'[s].order /\ nodes'[s].order <= hi
             /\ \A m \in S : nodes'[m] = [nodes[m] EXCEPT !.parentId = s]
             /\ \A i \in DOMAIN nodes \ S : nodes'[i] = nodes[i]]_vars

\* C5 witness: add_summary has just summarized two siblings with different keys.
C5_Witness ==
    /\ last.op = "add_summary" /\ last.result = "ok"
    /\ Cardinality(last.ids) = 2
    /\ \A m \in last.ids : nodes[m].parentId = last.ret
    /\ \E a, b \in last.ids : nodes[a].order + One <= nodes[b].order

\* C6: add_summary is rejected with a validation error and changes nothing
\* when node_ids is empty, when a referenced node has a child, or when the
\* referenced nodes do not share one parent.
C6_SummaryRejected ==
    [][(/\ CalledOp("add_summary")
        /\ \/ last'.ids = {}
           \/ /\ last'.ids \subseteq DOMAIN nodes
              /\ \/ \E m \in last'.ids : \E c \in DOMAIN nodes : nodes[c].parentId = m
                 \/ Cardinality({nodes[m].parentId : m \in last'.ids}) > 1)
       => (last'.result = "ValidationError" /\ nodes' = nodes)]_vars

\* C6 witness: add_summary has just been refused for a single node that is
\* not the root and has two children, as a summary of two nodes has.
C6_Witness ==
    /\ last.op = "add_summary" /\ last.result = "ValidationError"
    /\ \E m \in DOMAIN nodes :
          /\ last.ids = {m}
          /\ nodes[m].parentId = RootId
          /\ Cardinality({c \in DOMAIN nodes : nodes[c].parentId = m}) = 2

\* C7: add_summary is atomic: whatever state a call leaves behind, also one
\* that failed midway, either nothing was written or the summary node was
\* inserted and every summarized node reparented under it.
C7_SummaryAtomic ==
    [][CalledOp("add_summary")
       => \/ nodes' = nodes
          \/ /\ nextId \in DOMAIN nodes'
             /\ \A m \in last'.ids : nodes'[m].parentId = nextId]_vars

\* C8: a call that fails with a not-found, validation or cycle error leaves
\* the set of node ids and every field of every node unchanged.
C8_FailureLeavesStore ==
    [][(Called /\ last'.result \in {"NotFound", "ValidationError", "CycleError"})
       => nodes' = nodes]_vars

\* C8 witness: add_summary has just failed on two existing leaves that have
\* different parents, after all its lookups had succeeded.
C8_Witness ==
    /\ last.op = "add_summary" /\ last.result = "ValidationError"
    /\ last.ids \subseteq DOMAIN nodes
    /\ \A m \in last.ids : \A c \in DOMAIN nodes : nodes[c].parentId # m
    /\ Cardinality({nodes[m].parentId : m \in last.ids}) = 2

\* C9: every operation fails with a not-found error, before writing anything,
\* when a node id passed to it (the node, the target of a move, any id of
\* add_summary's list) does not resolve.
C9_NotFoundFirst ==
    [][(/\ Called
        /\ \/ last'.op # "add_summary" /\ last'.node \notin DOMAIN nodes
           \/ last'.op \in MoveOps /\ last'.target \notin DOMAIN nodes
           \/ last'.op = "add_summary" /\ ~(last'.ids \subseteq DOMAIN nodes))
       => (last'.result = "NotFound" /\ nodes' = nodes)]_vars

\* C10: append_child(P) gives the new node order_key = (largest order_key
\* among P's children, or 0) + 1, which is above the key of every child P
\* already has, so keys of successive appends to P increase strictly.
C10_AppendOrder ==
    [][(CalledOp("append_child") /\ last'.result = "ok")
       => LET P == last'.node
              n == last'.ret
          IN /\ n \notin DOMAIN nodes
             /\ nodes'[n].parentId = P
             /\ nodes'[n].order =
                    (IF ChildOrders(nodes, P) = {} THEN 0
                     ELSE SetMax(ChildOrders(nodes, P))) + One
             /\ \A k \in ChildOrders(nodes, P) : k < nodes'[n].order]_vars

\* C10 witness: append_child has just added a node to a parent that already
\* had a child.
C10_Witness ==
    /\ last.op = "append_child" /\ last.result = "ok"
    /\ \E c \in DOMAIN nodes : c # last.ret /\ nodes[c].parentId = last.node

InsertOps == {"insert_before", "insert_after"}
SiblingOps == {"insert_before", "insert_after", "move_before", "move_after"}
BeforeOps == {"insert_before", "move_before"}

\* The anchor of a sibling-relative call and the node the call places next to it.
Anchor(l) == IF l.op \in InsertOps THEN l.node ELSE l.target
Placed(l) == IF l.op \in InsertOps THEN l.ret ELSE l.node

\* The children of p that stand before / after n in p's sibling order.
Preceding(db, p, n) == {s \in DOMAIN db : db[s].parentId = p /\ s # n /\ RowBefore(db, s, n)}
Following(db, p, n) == {s \in DOMAIN db : db[s].parentId = p /\ s # n /\ RowBefore(db, n, s)}

\* C11: insert_before, insert_after, move_before and move_after give the
\* placed node a key strictly between the anchor's key and the key of the
\* anchor's current predecessor (successor), or the anchor's key - 1.0
\* (+ 1.0) when the anchor is first (last); afterwards the node is a child of
\* the anchor's parent and immediately adjacent to the anchor on that side.
C11_SiblingOrder ==
    [][(Called /\ last'.op \in SiblingOps /\ last'.result = "ok")
       => LET a == Anchor(last')
              n == Placed(last')
              p == nodes[a].parentId
              before == last'.op \in BeforeOps
              nbrs == IF before THEN Preceding(nodes, p, a) ELSE Following(nodes, p, a)
              nbrKeys == {nodes[s].order : s \in nbrs}
              k == nodes'[n].order
          IN /\ nodes'[n].parentId = p
             /\ IF nbrs = {}
                THEN k = (IF before THEN nodes[a].order - One ELSE nodes[a].order + One)
                ELSE IF before
                     THEN SetMax(nbrKeys) < k /\ k < nodes[a].order
                     ELSE nodes[a].order < k /\ k < SetMin(nbrKeys)
             /\ IF before
                THEN /\ RowBefore(nodes', n, a)
                     /\ Preceding(nodes', p, a) \cap Following(nodes', p, n) = {}
                ELSE /\ RowBefore(nodes', a, n)
                     /\ Following(nodes', p, a) \cap Preceding(nodes', p, n) = {}]_vars

\* C12: an insert or move whose interpolated key equals a neighbour's fails
\* with the ordering-exhausted error and stores nothing: a successful call
\* never leaves the placed node with the order_key of one of its siblings.
C12_NoDuplicateKey ==
    [][(Called /\ last'.op \in SiblingOps)
       => /\ last'.result = "OrderingExhausted" => nodes' = nodes
          /\ last'.result = "ok" =>
                \A s \in DOMAIN nodes' :
                    (s # Placed(last') /\ nodes'[s].parentId = nodes'[Placed(last')].parentId)
                        => nodes'[s].order # nodes'[Placed(last')].order]_vars

CreateOps == {"append_child", "insert_before", "insert_after"}

\* C13: no renumbering.  A successful append_child, insert_before or
\* insert_after adds exactly one node and leaves every field of every node
\* that existed before unchanged; a successful move changes parent_id and
\* order_key of the moved node and no field of any other node.
C13_NoRenumbering ==
    [][(Called /\ last'.result = "ok")
       => /\ last'.op \in CreateOps =>
                /\ last'.ret \notin DOMAIN nodes
                /\ DOMAIN nodes' = DOMAIN nodes \cup {last'.ret}
                /\ \A i \in DOMAIN nodes : nodes'[i] = nodes[i]
          /\ last'.op \in MoveOps =>
                /\ DOMAIN nodes' = DOMAIN nodes
                /\ \A i \in DOMAIN nodes \ {last'.node} : nodes'[i] = nodes[i]
                /\ nodes'[last'.node] =
                      [nodes[last'.node] EXCEPT !.parentId = nodes'[last'.node].parentId,
                                                !.order = nodes'[last'.node].order,
                                                !.updatedAt = nodes'[last'.node].updatedAt]]_vars

\* C13 witness: insert_before has just placed a node in front of an anchor
\* that has a sibling before it, so the new key lies between two existing keys.
C13_Witness ==
    /\ last.op = "insert_before" /\ last.result = "ok"
    /\ \E s \in DOMAIN nodes :
          /\ s \notin {last.ret, last.node}
          /\ nodes[s].parentId = nodes[last.node].parentId
          /\ nodes[s].order < nodes[last.ret].order
          /\ nodes[last.ret].order < nodes[last.node].order

\* start and everything below it.
Subtree(db, start) == {start} \cup Below(db, start)

\* The rows of start's subtree can all be read and none is its own ancestor.
SubtreeSound(db, start) ==
    \A m \in Subtree(db, start) : RowReadable(db, m) /\ m \notin Below(db, m)

\* C14: serialize(start) returns start followed by the serializations of its
\* children in ascending order_key (depth-first pre-order): every node of
\* start's subtree exactly once, every parent before its children, every
\* subtree contiguous, siblings by ascending key.  The call does not modify
\* the store and a second call returns the same sequence.  On a sound subtree
\* the call returns.
C14_Serialize ==
    [][CalledOp("serialize")
       => LET start == last'.node
              out == last'.out
              n == Len(out)
          IN /\ nodes' = nodes
             /\ (start \in DOMAIN nodes /\ SubtreeSound(nodes, start)) => last'.result = "ok"
             /\ last'.result = "ok" =>
                   /\ n = Cardinality(Subtree(nodes, start))
                   /\ Range(out) = Subtree(nodes, start)
                   /\ out[1] = start
                   /\ \A i \in 2..n : \E j \in 1..(i - 1) : out[j] = nodes[out[i]].parentId
                   /\ \A i \in 1..n :
                         {out[j] : j \in i..(i + Cardinality(Below(nodes, out[i])))}
                            = Subtree(nodes, out[i])
                   /\ \A i, j \in 2..n :
                         (i < j /\ nodes[out[i]].parentId = nodes[out[j]].parentId)
                            => nodes[out[i]].order <= nodes[out[j]].order
                   /\ serialize(nodes', start).out = out]_vars

\* C14 witness: serialize has returned a subtree of four nodes that has a
\* grandchild of the start node and in which reading order differs from
\* creation order.
C14_Witness ==
    /\ last.op = "serialize" /\ last.result = "ok"
    /\ Len(last.out) = 4
    /\ \E i, j \in 1..Len(last.out) : i < j /\ last.out[i] > last.out[j]
    /\ \E x \in Range(last.out) :
          /\ nodes[x].parentId \in DOMAIN nodes
          /\ nodes[nodes[x].parentId].parentId = last.node

\* Sum of token_count over the entries of a returned list.
RECURSIVE TokenSum(_, _)
TokenSum(db, s) ==
    IF s = <<>> THEN 0 ELSE db[Head(s)].tokenCount + TokenSum(db, Tail(s))

\* C15: the token_count of the nodes expand_to_length(start, max_tokens)
\* returns sums to at most max_tokens, for every store and every max_tokens >= 0.
C15_WithinBudget ==
    [][(CalledOp("expandToLength") /\ last'.result = "ok")
       => /\ Range(last'.out) \subseteq DOMAIN nodes
          /\ TokenSum(nodes, last'.out) <= last'.target]_vars

\* C15 witness: expand_to_length has returned a node with tokens and left out
\* a child of the start node that no longer fitted.
C15_Witness ==
    /\ last.op = "expandToLength" /\ last.result = "ok"
    /\ TokenSum(nodes, last.out) > 0
    /\ \E x \in DOMAIN nodes :
          /\ nodes[x].parentId = last.node
          /\ x \notin Range(last.out)
          /\ TokenSum(nodes, last.out) + nodes[x].tokenCount > last.target

\* What the turn of depth-1 node d can add to the result: d's children in
\* ascending order_key when it has any, d itself when it has none.
Candidates(db, d) == IF ChildIds(db, d) # {} THEN _getSortedChildren(db, d) ELSE <<d>>

\* The first f[i] candidates of each depth-1 node from the i-th on, in order.
RECURSIVE Pieces(_, _, _, _)
Pieces(db, d1, f, i) ==
    IF i > Len(d1) THEN <<>>
    ELSE SubSeq(Candidates(db, d1[i]), 1, f[i]) \o Pieces(db, d1, f, i + 1)

\* The ways to read out as made, turn by turn, of the first f[i] candidates
\* of the i-th depth-1 node of start.
Splits(db, start, out) ==
    LET d1 == _getSortedChildren(db, start)
    IN {f \in [1..Len(d1) -> 0..Cardinality(DOMAIN db)] :
            /\ \A i \in 1..Len(d1) : f[i] <= Len(Candidates(db, d1[i]))
            /\ Pieces(db, d1, f, 1) = out}

\* The running token total when the turn of the i-th depth-1 node begins.
Prior(db, d1, f, i) == TokenSum(db, Pieces(db, SubSeq(d1, 1, i - 1), f, 1))

Reached(db, d1, f, i, maxTokens) ==
    /\ Prior(db, d1, f, i) < maxTokens
    /\ \A j \in 1..(i - 1) : ChildIds(db, d1[j]) = {} => f[j] = 1

\* The first k candidates of d fit on top of a running total of prior tokens.
PrefixFits(db, d, k, prior, maxTokens) ==
    prior + TokenSum(db, SubSeq(Candidates(db, d), 1, k)) <= maxTokens

\* The longest prefix of d's candidates that the turn of d adds: each one
\* fits when it is added, and the next one, if any, does not.
Longest(db, d, k, prior, maxTokens) ==
    /\ \A m \in 1..k : PrefixFits(db, d, m, prior, maxTokens)
    /\ k < Len(Candidates(db, d)) => ~PrefixFits(db, d, k + 1, prior, maxTokens)

C18_StoppingAsymmetry ==
    [][(CalledOp("expandToLength") /\ last'.result = "ok")
       => LET d1 == _getSortedChildren(nodes, last'.node)
              maxTokens == last'.target
          IN \E f \in Splits(nodes, last'.node, last'.out) :
                \A j \in 1..Len(d1) :
                    IF Reached(nodes, d1, f, j, maxTokens)
                    THEN Longest(nodes, d1[j], f[j], Prior(nodes, d1, f, j), maxTokens)
                    ELSE /\ f[j] = 0
                         /\ \/ Prior(nodes, d1, f, j) >= maxTokens
                            \/ \E k \in 1..(j - 1) :
                                  /\ ChildIds(nodes, d1[k]) = {}
                                  /\ ~PrefixFits(nodes, d1[k], 1,
                                                 Prior(nodes, d1, f, k), maxTokens)]_vars

\* C18 witness: the first depth-1 node has a child that did not fit and was
\* left out, and the second depth-1 node, a leaf, was returned after it.
C18_Witness ==
    /\ last.op = "expandToLength" /\ last.result = "ok"
    /\ LET d1 == _getSortedChildren(nodes, last.node)
       IN /\ Len(d1) = 2
          /\ ChildIds(nodes, d1[1]) # {}
          /\ \A c \in ChildIds(nodes, d1[1]) : nodes[c].tokenCount > last.target
          /\ ChildIds(nodes, d1[2]) = {}
          /\ last.out = <<d1[2]>>

\* C19: expandToLength(nodeId, maxTokens) includes the starting node itself
\* in the result it returns.
C19_StartIncluded ==
    [][(CalledOp("expandToLength") /\ last'.result = "ok")
       => last'.node \in Range(last'.out)]_vars

\* C20: however initSharedDatabase calls / Docmem constructions interleave
\* before the shared database is ready, at most one initialization is in
\* flight, the database is created at most once (a new initialization starts
\* only after an earlier one failed without creating it), every caller that
\* waits for an initialization in flight waits for that one shared promise,
\* and every caller that gets a database gets the same instance.
C20_SingleInit ==
    /\ Cardinality(Running) <= 1
    /\ Cardinality(Created) <= 1
    /\ Running # {} => (Created = {} /\ databaseInitPromise \in Running)
    /\ \A c \in Docmems :
          /\ (docmems[c].pc = "awaiting" /\ docmems[c].promise \in Running)
                => docmems[c].promise = databaseInitPromise
          /\ docmems[c].db # NoDb
                => (docmems[c].db = sharedDatabase /\ Created = {docmems[c].db})
          /\ docmems[c].value # NoDb => docmems[c].value = sharedDatabase
    /\ sharedDatabase # NoDb => Created = {sharedDatabase}

\* C20 witness: two Docmems were constructed before the database was ready,
\* awaited the same initialization, and are both ready with its database,
\* after an earlier initialization had failed.
C20_Witness ==
    /\ \E a \in DOMAIN inits : inits[a] = "initFailed"
    /\ \E c, d \in Docmems :
          /\ c # d
          /\ docmems[c].pc = "ready" /\ docmems[d].pc = "ready"
          /\ docmems[c].promise = docmems[d].promise
          /\ docmems[c].promise # NoPromise
          /\ docmems[c].db = docmems[d].db

\* C21: whenever the ready() of a Docmem resolves, exactly one root row with
\* its id exists: _init creates the root only if it is absent, and leaves an
\* existing root and every other row as they are, however many Docmems with
\* that id are constructed, at the same time or one after another.
C21_OneRoot ==
    [][\A c \in Docmems :
          (docmems[c].pc = "awaiting" /\ docmems'[c].pc = "ready")
             => LET d == docmems[c].docmemId
                IN /\ Cardinality({i \in DOMAIN nodes' :
                                      i = d /\ nodes'[i].parentId = NoId}) = 1
                   /\ IF d \in DOMAIN nodes
                      THEN nodes' = nodes
                      ELSE /\ DOMAIN nodes' = DOMAIN nodes \cup {d}
                           /\ \A i \in DOMAIN nodes : nodes'[i] = nodes[i]]_vars

\* C21 witness: three Docmems with the same id are ready, two of them
\* constructed while the database was initializing and one after it was
\* ready, and the root carries text written through one of them.
C21_Witness ==
    \E c, d, e \in Docmems :
        /\ c # d /\ docmems[c].docmemId = docmems[d].docmemId
        /\ docmems[e].docmemId = docmems[c].docmemId
        /\ docmems[c].pc = "ready" /\ docmems[d].pc = "ready" /\ docmems[e].pc = "ready"
        /\ docmems[c].promise # NoPromise /\ docmems[d].promise = docmems[c].promise
        /\ docmems[e].promise = NoPromise
        /\ nodes[docmems[c].docmemId].text = "hello"

\* The columns whose change counts as a mutation of the row.
Mutated(old, new) ==
    \/ old.text # new.text
    \/ old.contextType # new.contextType
    \/ old.contextName # new.contextName
    \/ old.contextValue # new.contextValue
    \/ old.parentId # new.parentId
    \/ old.order # new.order

\* C22: every call that changes text, a context field, parent_id or
\* order_key of a stored node also advances that node's updated_at to the
\* time of the call: update_content, update_context, the three moves, and
\* add_summary for each node it reparents.
C22_UpdatedAtAdvances ==
    [][Called
       => \A i \in DOMAIN nodes \cap DOMAIN nodes' :
             Mutated(nodes[i], nodes'[i])
                => /\ nodes'[i].updatedAt = now
                   /\ nodes'[i].updatedAt >= nodes[i].updatedAt]_vars

\* C23: in every reachable state the token_count of every stored node is a
\* non-negative integer and equals the counting function applied to the
\* node's current text (counted at creation, recounted by update_content).
C23_TokenCount ==
    \A i \in DOMAIN nodes :
        /\ nodes[i].tokenCount \in Nat
        /\ nodes[i].tokenCount = _countTokens(nodes[i].text)

\* C23 witness: update_content has just given the root, created with empty
\* text, a text that counts two tokens.
C23_Witness ==
    /\ last.op = "update_content" /\ last.result = "ok"
    /\ last.node = RootId
    /\ nodes[RootId].text = "hello"
    /\ nodes[RootId].tokenCount = 2

\* C24: in every reachable state every stored node has three non-empty
\* context fields, so that find can read every stored node back.
C24_ContextNonEmpty ==
    \A i \in DOMAIN nodes :
        /\ ContextOk(nodes[i])
        /\ find(nodes, i) = [result |-> "ok", ret |-> i]

\* C25: update_content changes only the text, token_count and updated_at of
\* its node, and update_context only the three context fields (to one triple
\* offered by the caller) and updated_at of its node; id, parent_id, order
\* key and created_at of that node and every field of every other node stay.
C25_UpdateFrame ==
    [][(CalledOp("update_content") \/ CalledOp("update_context"))
       => /\ DOMAIN nodes' = DOMAIN nodes
          /\ \A i \in DOMAIN nodes : i # last'.node => nodes'[i] = nodes[i]
          /\ last'.result # "ok" => nodes' = nodes
          /\ (last'.result = "ok" /\ last'.op = "update_content")
                => LET n == last'.node
                   IN nodes'[n] = [nodes[n] EXCEPT !.text = nodes'[n].text,
                                                   !.tokenCount = nodes'[n].tokenCount,
                                                   !.updatedAt = nodes'[n].updatedAt]
          /\ (last'.result = "ok" /\ last'.op = "update_context")
                => LET n == last'.node
                   IN /\ nodes'[n] = [nodes[n] EXCEPT !.contextType = nodes'[n].contextType,
                                                      !.contextName = nodes'[n].contextName,
                                                      !.contextValue = nodes'[n].contextValue,
                                                      !.updatedAt = nodes'[n].updatedAt]
                      /\ [contextType |-> nodes'[n].contextType,
                          contextName |-> nodes'[n].contextName,
                          contextValue |-> nodes'[n].contextValue] \in Contexts]_vars

\* C25 witness: the root, created at time 0 with empty text and the default
\* context, has had its text replaced and, a tick later, its context.
C25_Witness ==
    /\ last.op = "update_context" /\ last.result = "ok" /\ last.node = RootId
    /\ nodes[RootId].contextType = "memory"
    /\ nodes[RootId].text = "hello"
    /\ nodes[RootId].createdAt = 0
    /\ nodes[RootId].updatedAt = 1

\* Every field of the stored node n except text, with the node's id.
MetadataOf(db, n) ==
    [f \in (DOMAIN db[n] \cup {"id"}) \ {"text"} |-> IF f = "id" THEN n ELSE db[n][f]]

\* C26: on every store state and for every start id, structure fails exactly
\* as serialize does and otherwise returns one entry per node serialize
\* returns, in the same order, each entry holding every field of its node
\* except text.
C26_StructureAsSerialize ==
    \A n \in ArgIds \cup {NoId} :
        LET s == serialize(nodes, n)
            t == structure(nodes, n)
        IN /\ t.result = s.result
           /\ Len(t.out) = Len(s.out)
           /\ \A k \in 1..Len(s.out) :
                /\ t.out[k].id = s.out[k]
                /\ t.out[k] = MetadataOf(nodes, s.out[k])

\* C26 witness: structure has just returned the entries of the root, of a
\* child and of a grandchild that has text.
C26_Witness ==
    /\ last.op = "structure" /\ last.result = "ok" /\ last.node = RootId
    /\ Len(last.out) >= 3
    /\ \E k \in 2..Len(last.out) :
          /\ last.out[k].parentId # RootId
          /\ nodes[last.out[k].id].text = "hello"

\* What C27 says of one sibling insertion with anchor a on the store db: a
\* validation error and no write when a has no parent, and otherwise exactly
\* one new row, a child of a's parent.
SiblingInsertAsSpecified(db, a, out) ==
    IF db[a].parentId = NoId
    THEN out.result = "ValidationError" /\ out.db = db
    ELSE /\ out.result = "ok"
         /\ DOMAIN out.db = DOMAIN db \cup {out.ret}
         /\ out.ret \notin DOMAIN db
         /\ out.db[out.ret].parentId = db[a].parentId
         /\ \A i \in DOMAIN db : out.db[i] = db[i]

\* C27: on every reachable store whose rows are all readable, insert_before
\* and insert_after with well-formed context fields are rejected with a
\* validation error exactly when the anchor has no parent, and for every
\* anchor that has a parent they insert one new sibling under that parent.
C27_RootOnlyRejected ==
    (\A i \in DOMAIN nodes : RowReadable(nodes, i))
        => \A a \in DOMAIN nodes, content \in Contents :
              /\ SiblingInsertAsSpecified(nodes, a,
                     insert_before(nodes, nextId, a, GoodContext, content))
              /\ SiblingInsertAsSpecified(nodes, a,
                     insert_after(nodes, nextId, a, GoodContext, content))

\* C28: on every reachable store the recursive walks finish from every row:
\* the recursion of serialize, of structure and of the descendant collection
\* of the move cycle check never goes deeper than the number of rows, that
\* is, never enters a row it is already inside.
C28_WalksFinish ==
    \A n \in DOMAIN nodes :
        /\ Walk(nodes, n, StackDepth(nodes)).st # "RangeError"
        /\ _structureRecursive(nodes, n, StackDepth(nodes)).st # "RangeError"
        /\ _getAllDescendants(nodes, n).st # "RangeError"

\* C29: at every modelled precision, when both runs between the same bounds
\* have ended, the forward chain of insert_after has made materially more
\* insertions than the midpoint bisection, roughly three times as many: the
\* quotient of the two counts is at least 2.5 and less than 3.5.
C29_ChainOutlastsBisection ==
    (trial # NoTrial /\ trial.chainDone /\ trial.midDone)
        => /\ trial.chainCount > trial.midCount
           /\ 5 * trial.midCount <= 2 * trial.chainCount
           /\ 2 * trial.chainCount < 7 * trial.midCount

\* C29 witness: at the highest modelled precision both runs have ended, the
\* bisection after one insertion per bit.
C29_Witness ==
    /\ trial.hi - trial.lo = 2^MaxBits
    /\ trial.chainDone /\ trial.midDone
    /\ trial.midCount = MaxBits
    /\ trial.chainCount > 2 * trial.midCount

\* No two children of one parent have the same order key.
KeysDistinct(db) ==
    \A i, j \in DOMAIN db :
        (i # j /\ db[i].parentId # NoId /\ db[i].parentId = db[j].parentId)
            => db[i].order # db[j].order

\* (minOrder + maxOrder) / 2 over the rows S is computed without rounding.
ExactSummary(db, S) ==
    (SetMin({db[i].order : i \in S}) + SetMax({db[i].order : i \in S})) % 2 = 0

\* C30: with exact key arithmetic no two children of one parent have equal
\* order keys after any sequence of operations: the keys of every reachable
\* store are distinct among siblings, and they still are after one more
\* add_summary whose midpoint is computed exactly.
C30_SiblingKeysDistinct ==
    KeysDistinct(nodes)
        => \A S \in SUBSET DOMAIN nodes, content \in Contents :
              LET out == add_summary(nodes, nextId, IdList(S), content, GoodContext)
              IN (out.result = "ok" /\ ExactSummary(nodes, S)) => KeysDistinct(out.db)

\* C31: a successful move_append_child, move_before or move_after creates
\* and removes no node, changes nothing of the moved node but parent_id,
\* order_key and updated_at (set to the time of the call), leaves parent_id
\* and order_key of every descendant of the moved node as they were, and
\* changes no other node.
C31_MoveFrame ==
    [][(Called /\ last'.op \in MoveOps /\ last'.result = "ok")
       => LET n == last'.node
          IN /\ DOMAIN nodes' = DOMAIN nodes
             /\ nodes'[n].text = nodes[n].text
             /\ nodes'[n].tokenCount = nodes[n].tokenCount
             /\ nodes'[n].contextType = nodes[n].contextType
             /\ nodes'[n].contextName = nodes[n].contextName
             /\ nodes'[n].contextValue = nodes[n].contextValue
             /\ nodes'[n].createdAt = nodes[n].createdAt
             /\ nodes'[n].updatedAt = now
             /\ \A d \in Below(nodes, n) :
                   /\ nodes'[d].parentId = nodes[d].parentId
                   /\ nodes'[d].order = nodes[d].order
             /\ \A i \in DOMAIN nodes : i # n => nodes'[i] = nodes[i]]_vars

\* C31 witness: a node that has text and a child has just been moved under
\* another node by move_append_child.
C31_Witness ==
    /\ last.op = "move_append_child" /\ last.result = "ok"
    /\ nodes[last.node].parentId = last.target
    /\ last.target # RootId
    /\ nodes[last.node].text = "hello"
    /\ \E d \in DOMAIN nodes : d # last.node /\ nodes[d].parentId = last.node

\* C32: a successful add_summary (midpoint computed exactly, sibling keys
\* distinct before) preserves the reading order of the nodes that existed:
\* serialize(parent) afterwards, the summary node removed, equals
\* serialize(parent) before, and the summary node stands immediately before
\* the first summarized node.
C32_SummaryKeepsOrder ==
    KeysDistinct(nodes)
        => \A S \in SUBSET DOMAIN nodes, content \in Contents :
              LET out == add_summary(nodes, nextId, IdList(S), content, GoodContext)
                  p == nodes[IdList(S)[1]].parentId
                  before == serialize(nodes, p)
                  after == serialize(out.db, p)
                  first == SortIds(nodes, S)[1]
              IN (out.result = "ok" /\ ExactSummary(nodes, S) /\ before.result = "ok")
                    => /\ after.result = "ok"
                       /\ SelectSeq(after.out, LAMBDA x : x # out.ret) = before.out
                       /\ \E k \in 1..(Len(after.out) - 1) :
                             after.out[k] = out.ret /\ after.out[k + 1] = first

\* Position of the first occurrence of x in the sequence q.
Position(q, x) == SetMin({k \in 1..Len(q) : q[k] = x})

\* C33: the result of a successful expandToLength(start, maxTokens) holds no
\* node twice, holds only children and grandchildren of start, and lists
\* them in the relative order in which serialize(start) lists them (where
\* serialize(start) returns).
C33_ExpandOrder ==
    [][(CalledOp("expandToLength") /\ last'.result = "ok")
       => LET start == last'.node
              out == last'.out
              ser == serialize(nodes, start)
          IN /\ \A i, j \in 1..Len(out) : i # j => out[i] # out[j]
             /\ \A i \in 1..Len(out) :
                   \/ nodes[out[i]].parentId = start
                   \/ /\ nodes[out[i]].parentId \in DOMAIN nodes
                      /\ nodes[nodes[out[i]].parentId].parentId = start
             /\ ser.result = "ok"
                   => /\ \A i \in 1..Len(out) : out[i] \in Range(ser.out)
                      /\ \A i, j \in 1..Len(out) :
                            i < j => Position(ser.out, out[i]) < Position(ser.out, out[j])]_vars

CommandOps == {"appendChild", "insertBefore", "insertAfter", "updateContext", "addSummary"}

\* The positions of the characters of str that are no blanks.
Ink(str) == {i \in 1..Len(str) : SubSeq(str, i, i) # " "}

\* str from its first to its last character that is no blank.
Stripped(str) == SubSeq(str, SetMin(Ink(str)), SetMax(Ink(str)))

\* The value is a string that, trimmed, is non-empty and at most 24 long.
Acceptable(value) ==
    /\ value.isString
    /\ Ink(value.s) # {}
    /\ Len(Stripped(value.s)) <= MaxFieldLength

\* C34: a command of DocmemCommands whose three context fields are not all
\* strings that are non-empty after trimming and at most 24 characters long
\* fails and leaves the store as it was; a command that succeeds stores, in
\* the node it creates or updates, the three fields trimmed: strings without
\* a blank at either end, non-empty and at most 24 characters long.
C34_CommandFields ==
    [][(Called /\ last'.op \in CommandOps)
       => LET f == last'.fields
              n == IF last'.op = "updateContext" THEN last'.node ELSE last'.ret
              stored == <<nodes'[n].contextType, nodes'[n].contextName,
                          nodes'[n].contextValue>>
          IN /\ (\E k \in 1..3 : ~Acceptable(f[k]))
                   => (last'.result = "ValidationError" /\ nodes' = nodes)
             /\ last'.result = "ok"
                   => \A k \in 1..3 :
                         /\ stored[k] = Stripped(f[k].s)
                         /\ Len(stored[k]) \in 1..MaxFieldLength
                         /\ Head(stored[k]) # " "
                         /\ SubSeq(stored[k], Len(stored[k]), Len(stored[k])) # " "]_vars

\* C34 witness: a command has just stored a context field of 24 characters
\* that was passed with a blank on either side.
C34_Witness ==
    /\ last.op \in CommandOps /\ last.result = "ok"
    /\ \E k \in 1..3 : Len(last.fields[k].s) = MaxFieldLength + 2
    /\ \E i \in DOMAIN nodes : Len(nodes[i].contextName) = MaxFieldLength

\* ------------------------------------------------------------ DocmemChat
\* The id every chat session is created under.
CHAT_DOCMEM_ID == RootId

MessageUser == [contextType |-> "message", contextName |-> "role", contextValue |-> "user"]
MessageAssistant == [contextType |-> "message", contextName |-> "role",
                     contextValue |-> "assistant"]
MessageTool == [contextType |-> "message", contextName |-> "role", contextValue |-> "tool"]
SummaryTool == [contextType |-> "summary", contextName |-> "role", contextValue |-> "tool"]

\* new Date().toISOString(): the time as a string.
toISOString(t) == "T" \o ToString(t)

ChatSessionContext(t) ==
    [contextType |-> "chat_session", contextName |-> "date", contextValue |-> toISOString(t)]

\* createChatSession, after ready(): the root found by _getRootById is
\* deleted, then the chat root is inserted under the same id.
createChatSession(db, docmemId) ==
    LET existingRoot == _getRootById(db, docmemId)
        cleared == IF existingRoot = "ok" THEN delete(db, docmemId).db ELSE db
    IN IF existingRoot = "ValidationError" THEN Throw(db, "ValidationError")
       ELSE IF docmemId \in DOMAIN cleared THEN Throw(cleared, "StorageError")
       ELSE Return(_insertNode(cleared, docmemId,
                               NewNode(NoId, "", 0, ChatSessionContext(now))), docmemId)

getRoot(db) == find(db, CHAT_DOCMEM_ID)

\* appendUserMessage / appendAssistantMessage: a message node is appended
\* to the children of the chat root.
appendMessage(db, newId, c, content) ==
    LET root == getRoot(db)
    IN IF root.result # "ok" THEN Throw(db, root.result)
       ELSE IF root.ret = NoId THEN Throw(db, "Error")
       ELSE append_child(db, newId, root.ret, c, content)

appendUserMessage(db, newId, content) == appendMessage(db, newId, MessageUser, content)
appendAssistantMessage(db, newId, content) ==
    appendMessage(db, newId, MessageAssistant, content)

\* `call_${node.id}`
ToolCallId(id) == "call_" \o ToString(id)
\* JSON.stringify({ text: node.text })
TextJson(text) == "{\"text\":\"" \o text \o "\"}"

\* The messages buildMessageList pushes for one child of the root.
NodeMessages(db, id) ==
    LET node == db[id]
    IN IF /\ node.contextType = "summary"
          /\ node.contextName = "role"
          /\ node.contextValue = "tool"
       THEN << [role |-> "assistant",
                tool_calls |-> << [id |-> ToolCallId(id), type |-> "function",
                                   name |-> "summary", arguments |-> "{}"] >>],
               [role |-> "tool", tool_call_id |-> ToolCallId(id), name |-> "summary",
                content |-> TextJson(node.text)] >>
       ELSE IF node.contextType = "message"
       THEN IF node.contextName = "role" /\ node.contextValue = "tool"
            THEN << [role |-> "tool", content |-> node.text] >>
            ELSE IF node.contextName = "role"
            THEN IF node.contextValue \notin {"user", "assistant"} THEN <<>>
                 ELSE << [role |-> node.contextValue, content |-> node.text] >>
            ELSE <<>>
       ELSE <<>>

\* Mutant of MessageList: a summary node is followed by the messages of its children.
RECURSIVE BadMessageList(_, _)
BadMessageList(db, ids) ==
    IF ids = <<>> THEN <<>>
    ELSE NodeMessages(db, Head(ids))
         \o (IF db[Head(ids)].contextType = "summary"
             THEN BadMessageList(db, _getSortedChildren(db, Head(ids)))
             ELSE <<>>)
         \o BadMessageList(db, Tail(ids))

\* The loop of buildMessageList over the sorted children.
RECURSIVE MessageList(_, _)
MessageList(db, ids) ==
    IF ids = <<>> THEN <<>>
    ELSE NodeMessages(db, Head(ids)) \o MessageList(db, Tail(ids))

buildMessageList(db) ==
    LET root == getRoot(db)
    IN IF root.result # "ok" THEN ReadThrow(root.result)
       ELSE IF root.ret = NoId THEN ReadThrow("Error")
       ELSE IF _getChildren(db, root.ret) # "ok" THEN ReadThrow(_getChildren(db, root.ret))
       ELSE ReadReturn(MessageList(db, _getSortedChildren(db, root.ret)))

\* ------------------------------------------------------------- chat page
\* What is typed into chat-input, and what the model answers: plain text, or
\* a Run section with no command, with a command the parser reduces to no
\* arguments, with a system command, with the deletion of the chat root.
Inputs == {"", " ", "hello "}
RunHeading == "# Run "
Responses == {"hello", "# Run ", "# Run \"\"", "# Run hello-world",
              "# Run docmem-delete chat_session"}

\* extractRunSections: the trimmed body of each Run section, empty bodies dropped.
extractRunSections(text) ==
    IF Len(text) >= Len(RunHeading) /\ SubSeq(text, 1, Len(RunHeading)) = RunHeading
    THEN LET commandText == Trim(SubSeq(text, Len(RunHeading) + 1, Len(text)))
         IN IF commandText = "" THEN <<>> ELSE <<commandText>>
    ELSE <<>>

\* parseCommand: the words of the command; empty strings are dropped.
parseCommand(commandText) ==
    IF commandText = "\"\"" THEN <<>>
    ELSE IF commandText = "hello-world" THEN <<"hello-world">>
    ELSE <<"docmem-delete", "chat_session">>

\* executeCommand: docmem- commands go to DocmemCommands on the docmem of the
\* chat session, which turns an exception into a failed result.
executeCommand(args, db) ==
    IF args[1] = "docmem-delete"
    THEN LET out == delete(db, CHAT_DOCMEM_ID)
         IN [db |-> out.db, success |-> out.result = "ok",
             result |-> IF out.result = "ok" THEN "deleted" ELSE "Error: " \o out.result]
    ELSE IF args[1] = "hello-world"
    THEN [db |-> db, success |-> TRUE, result |-> "Hello World"]
    ELSE [db |-> db, success |-> FALSE, result |-> "Unknown system command"]

\* The loop of processCommands over the commands: each is parsed and
\* executed, and its output added to commandOutputText.
RECURSIVE RunCommands(_, _, _)
RunCommands(db, commands, commandOutputText) ==
    IF commands = <<>> THEN [db |-> db, commandOutputText |-> commandOutputText]
    ELSE LET commandText == Head(commands)
             args == parseCommand(commandText)
             result == executeCommand(args, db)
             sep == IF commandOutputText # "" THEN "\n" ELSE ""
         IN IF Len(args) = 0 THEN RunCommands(db, Tail(commands), commandOutputText)
            ELSE RunCommands(result.db, Tail(commands),
                     commandOutputText \o sep \o "command> " \o commandText \o "\n"
                     \o (IF result.success THEN "result> " ELSE "error> ") \o result.result)

\* The send awaiting[i] is over: the finally block of the handler runs.
Finally(c, db, i, event) ==
    [chat |-> [c EXCEPT !.isProcessing = FALSE,
                        !.awaiting = SubSeq(@, 1, i - 1) \o SubSeq(@, i + 1, Len(@)),
                        !.event = event,
                        !.modelCalls = c.awaiting[i].modelCalls],
     db |-> db]

\* Mutant of processCommands: the model is called again up to depth 3.
BadProcessCommands(c, db, newId, i, responseText) ==
    LET send == c.awaiting[i]
        commands == extractRunSections(responseText)
        ran == RunCommands(db, commands, "")
        appended == appendUserMessage(ran.db, newId, ran.commandOutputText)
        messages == buildMessageList(appended.db)
    IN IF commands = <<>> THEN Finally(c, db, i, "completed")
       ELSE IF ran.commandOutputText = "" THEN Finally(c, ran.db, i, "completed")
       ELSE IF appended.result # "ok" THEN Finally(c, appended.db, i, "failed")
       ELSE IF send.depth <= 3
       THEN IF messages.result # "ok" THEN Finally(c, appended.db, i, "failed")
            ELSE [chat |-> [c EXCEPT !.awaiting[i] = [depth |-> send.depth + 1,
                                                      modelCalls |-> send.modelCalls + 1],
                                     !.apiCalls = @ + 1,
                                     !.event = "reinvoked"],
                  db |-> appended.db]
       ELSE Finally(c, appended.db, i, "depthLimit")

\* processCommands(responseText, depth) up to its await of api.chat, for the
\* send awaiting[i] whose call of the model returned responseText: the
\* commands run, their output is appended as a user message, and below
\* depth 3 the model is called again.
processCommands(c, db, newId, i, responseText) ==
    LET send == c.awaiting[i]
        commands == extractRunSections(responseText)
        ran == RunCommands(db, commands, "")
        appended == appendUserMessage(ran.db, newId, ran.commandOutputText)
        messages == buildMessageList(appended.db)
    IN IF commands = <<>> THEN Finally(c, db, i, "completed")
       ELSE IF ran.commandOutputText = "" THEN Finally(c, ran.db, i, "completed")
       ELSE IF appended.result # "ok" THEN Finally(c, appended.db, i, "failed")
       ELSE IF send.depth < 3
       THEN IF messages.result # "ok" THEN Finally(c, appended.db, i, "failed")
            ELSE [chat |-> [c EXCEPT !.awaiting[i] = [depth |-> send.depth + 1,
                                                      modelCalls |-> send.modelCalls + 1],
                                     !.apiCalls = @ + 1,
                                     !.event = "reinvoked"],
                  db |-> appended.db]
       ELSE Finally(c, appended.db, i, "depthLimit")

\* The handler resumes with the response of the model: it is appended as an
\* assistant message and its commands are processed.
Responded(c, db, newId, i, response) ==
    LET appended == appendAssistantMessage(db, newId, response)
    IN IF appended.result # "ok" THEN Finally(c, appended.db, i, "failed")
       ELSE processCommands(c, appended.db, newId + 1, i, response)

\* The try block of sendMessage and sendContinueMessage up to the await of
\* api.chat, after isProcessing was set; a throw runs catch and finally.
Send(c, db, newId, message) ==
    LET appended == appendUserMessage(db, newId, message)
        messages == buildMessageList(appended.db)
    IN IF appended.result # "ok" \/ messages.result # "ok"
       THEN [chat |-> [c EXCEPT !.isProcessing = FALSE, !.event = "failed"],
             db |-> appended.db]
       ELSE [chat |-> [c EXCEPT !.isProcessing = TRUE,
                                !.awaiting = Append(@, [depth |-> 0, modelCalls |-> 1]),
                                !.apiCalls = @ + 1,
                                !.sends = @ + 1,
                                !.event = "sent"],
             db |-> appended.db]

\* Mutant of sendMessage: isProcessing is not looked at.
BadSendMessage(c, db, newId, value) ==
    IF Trim(value) = "" THEN [chat |-> [c EXCEPT !.event = "noMessage"], db |-> db]
    ELSE IF ~c.chatSession \/ ~c.api
    THEN [chat |-> [c EXCEPT !.event = "noSession"], db |-> db]
    ELSE Send(c, db, newId, Trim(value))

sendMessage(c, db, newId, value) ==
    IF c.isProcessing THEN [chat |-> [c EXCEPT !.event = "busy"], db |-> db]
    ELSE IF Trim(value) = "" THEN [chat |-> [c EXCEPT !.event = "noMessage"], db |-> db]
    ELSE IF ~c.chatSession \/ ~c.api
    THEN [chat |-> [c EXCEPT !.event = "noSession"], db |-> db]
    ELSE Send(c, db, newId, Trim(value))

sendContinueMessage(c, db, newId) ==
    IF c.isProcessing THEN [chat |-> [c EXCEPT !.event = "busy"], db |-> db]
    ELSE IF ~c.chatSession \/ ~c.api
    THEN [chat |-> [c EXCEPT !.event = "noSession"], db |-> db]
    ELSE Send(c, db, newId, "Please continue.")

\* The first id above those in use.
FreeId(db, id) == IF id + 1 \in DOMAIN db THEN id + 2 ELSE IF id \in DOMAIN db THEN id + 1 ELSE id

\* A handler of the chat page has run up to its next await.
ChatStep(out) ==
    /\ chat' = out.chat
    /\ nodes' = out.db
    /\ nextId' = FreeId(out.db, nextId)
    /\ UNCHANGED <<last, calls, boot, now, trial>>

\* The Start button: api is set and the system text is fetched.
StartChatSession ==
    /\ chat.starts < MaxStarts
    /\ chat' = [chat EXCEPT !.api = TRUE, !.starting = @ + 1, !.starts = @ + 1,
                            !.event = "starting"]
    /\ UNCHANGED <<nodes, nextId, last, calls, boot, now, trial>>

\* startChatSession resumes with the system text: chatSession is a new
\* DocmemChat, whose Docmem creates its root if there is none, and
\* createChatSession replaces that root.
SessionCreated ==
    /\ chat.starting > 0
    /\ LET root == _createRoot(nodes, CHAT_DOCMEM_ID)
           created == createChatSession(root.db, CHAT_DOCMEM_ID)
       IN ChatStep([chat |-> [chat EXCEPT !.chatSession = TRUE, !.starting = @ - 1,
                                          !.event = IF root.result = "ok"
                                                       /\ created.result = "ok"
                                                    THEN "started" ELSE "startFailed"],
                    db |-> IF root.result = "ok" THEN created.db ELSE root.db])

\* Enter in chat-input, or the Send button.
SendMessage ==
    /\ chat.sends < MaxSends
    /\ \E value \in Inputs : ChatStep(sendMessage(chat, nodes, nextId, value))

\* The Continue button.
SendContinueMessage ==
    /\ chat.sends < MaxSends
    /\ ChatStep(sendContinueMessage(chat, nodes, nextId))

\* api.chat resolves for one of the sends that await it.
ModelResponds ==
    \E i \in DOMAIN chat.awaiting, response \in Responses :
        ChatStep(Responded(chat, nodes, nextId, i, response))

\* api.chat rejects.
ModelFails ==
    \E i \in DOMAIN chat.awaiting : ChatStep(Finally(chat, nodes, i, "failed"))

\* The chat page is loaded and the shared database initialized; no row exists.
InitChat ==
    /\ now = 0
    /\ trial = NoTrial
    /\ chat = NoChat
    /\ nodes = <<>>
    /\ nextId = 2
    /\ calls = 0
    /\ last = NoCall
    /\ sharedDatabase = 1
    /\ databaseInitPromise = 1
    /\ inits = <<"resolved">>
    /\ docmems = [c \in Docmems |-> NewDocmem]

NextChat ==
    \/ StartChatSession
    \/ SessionCreated
    \/ SendMessage
    \/ SendContinueMessage
    \/ ModelResponds
    \/ ModelFails

SpecChat == InitChat /\ [][NextChat]_vars

\* A send handler is invoked in this step.
SendInvoked == SendMessage \/ SendContinueMessage

\* C35: at most one send is in flight: between handlers isProcessing is true
\* exactly while one send awaits the model, never two; sendMessage or
\* sendContinueMessage invoked while isProcessing is true appends no node,
\* calls the model no further time and leaves the send in flight as it was;
\* and when the send in flight completes or fails isProcessing is false
\* again, so that the next send with a session open is not turned away.
C35_OneSendInFlight ==
    [][/\ Len(chat'.awaiting) <= 1
       /\ chat'.isProcessing <=> chat'.awaiting # <<>>
       /\ (chat.isProcessing /\ SendInvoked)
             => /\ nodes' = nodes
                /\ chat'.apiCalls = chat.apiCalls
                /\ chat'.awaiting = chat.awaiting
                /\ chat'.isProcessing
       /\ Len(chat'.awaiting) < Len(chat.awaiting)
             => /\ ~chat'.isProcessing
                /\ (chat'.chatSession /\ chat'.api)
                      => sendMessage(chat', nodes', nextId', "hello ").chat.event
                            \in {"sent", "failed"}]_vars

\* C35 witness: a send was invoked and turned away while the send in flight
\* awaited the model a second time, after its commands had run.
C35_Witness ==
    /\ chat.event = "busy"
    /\ chat.isProcessing
    /\ Len(chat.awaiting) = 1
    /\ chat.awaiting[1].depth = 1

\* The scheduling the termination of a send rests on: a call of api.chat
\* that is awaited is settled, by a response or by a rejection.
SpecChatLive == SpecChat /\ WF_vars(ModelResponds \/ ModelFails)

\* The text processCommands appends for this response, "" if none.
CommandOutput(db, response) ==
    RunCommands(db, extractRunSections(response), "").commandOutputText

\* The send awaiting[i] resumes with this response.
RespondsWith(i, response) ==
    /\ i \in DOMAIN chat.awaiting
    /\ ChatStep(Responded(chat, nodes, nextId, i, response))

MessageSystem == [contextType |-> "message", contextName |-> "role", contextValue |-> "system"]
MessageKind == [contextType |-> "message", contextName |-> "kind", contextValue |-> "user"]
CommandContexts == {MessageTool, SummaryTool, GoodContext, MessageSystem, MessageKind}

AppendUserMessage ==
    /\ Ready
    /\ \E t \in Contents :
        LET out == appendUserMessage(nodes, nextId, t)
        IN WithinBounds(out) /\ Call("appendUserMessage", CHAT_DOCMEM_ID, NoId, NoIds, out)

AppendAssistantMessage ==
    /\ Ready
    /\ \E t \in Contents :
        LET out == appendAssistantMessage(nodes, nextId, t)
        IN WithinBounds(out)
           /\ Call("appendAssistantMessage", CHAT_DOCMEM_ID, NoId, NoIds, out)

\* docmem-append-child run on the docmem of the chat session.
SessionAppendChild ==
    /\ Ready
    /\ \E p \in Ids, c \in CommandContexts :
        LET out == append_child(nodes, nextId, p, c, "hello")
        IN WithinBounds(out) /\ Call("append_child", p, NoId, NoIds, out)

\* docmem-add-summary run on the docmem of the chat session.
SessionAddSummary ==
    /\ Ready
    /\ \E S \in SUBSET Ids :
        LET out == add_summary(nodes, nextId, IdList(S), "hello", SummaryTool)
        IN WithinBounds(out) /\ Call("add_summary", NoId, NoId, S, out)

BuildMessageList ==
    /\ Ready
    /\ ReadCall("buildMessageList", CHAT_DOCMEM_ID, 0, buildMessageList(nodes))

\* The store after createChatSession on an empty store.
InitMessages ==
    /\ now = 0
    /\ trial = NoTrial
    /\ chat = NoChat
    /\ nodes = (CHAT_DOCMEM_ID :> NewNode(NoId, "", 0, ChatSessionContext(0)))
    /\ nextId = 2
    /\ calls = 0
    /\ last = NoCall
    /\ sharedDatabase = 1
    /\ databaseInitPromise = 1
    /\ inits = <<"resolved">>
    /\ docmems = [c \in Docmems |->
                    IF c = 1 THEN [pc |-> "ready", docmemId |-> CHAT_DOCMEM_ID, promise |-> 1,
                                   value |-> NoDb, db |-> 1]
                    ELSE NewDocmem]

NextMessages ==
    \/ AppendUserMessage
    \/ AppendAssistantMessage
    \/ SessionAppendChild
    \/ SessionAddSummary
    \/ BuildMessageList
    \/ Resume

SpecMessages == InitMessages /\ [][NextMessages]_vars

IsSummaryNode(n) ==
    n.contextType = "summary" /\ n.contextName = "role" /\ n.contextValue = "tool"

IsMessageNode(n, roles) ==
    n.contextType = "message" /\ n.contextName = "role" /\ n.contextValue \in roles

\* The sequences that list the children of the root once each, by ascending key.
AscendingChildren(db) ==
    LET S == ChildIds(db, CHAT_DOCMEM_ID)
    IN {q \in [1..Cardinality(S) -> S] :
           /\ \A i, j \in DOMAIN q : i # j => q[i] # q[j]
           /\ \A i, j \in DOMAIN q : i < j => db[q[i]].order <= db[q[j]].order}

\* out is made of, for each node of ids in turn: one {role, content} message
\* for a message node with one of the roles, an assistant message with one
\* tool call followed by the tool response to that call for a summary node,
\* nothing for any other node.
RECURSIVE Renders(_, _, _, _)
Renders(db, ids, out, roles) ==
    IF ids = <<>> THEN out = <<>>
    ELSE LET n == db[Head(ids)]
         IN IF IsSummaryNode(n)
            THEN /\ Len(out) >= 2
                 /\ DOMAIN out[1] = {"role", "tool_calls"}
                 /\ out[1].role = "assistant"
                 /\ Len(out[1].tool_calls) = 1
                 /\ "tool_call_id" \in DOMAIN out[2]
                 /\ out[2].role = "tool"
                 /\ out[2].tool_call_id = out[1].tool_calls[1].id
                 /\ Renders(db, Tail(ids), SubSeq(out, 3, Len(out)), roles)
            ELSE IF IsMessageNode(n, roles)
            THEN /\ Len(out) >= 1
                 /\ out[1] = [role |-> n.contextValue, content |-> n.text]
                 /\ Renders(db, Tail(ids), Tail(out), roles)
            ELSE Renders(db, Tail(ids), out, roles)

\* Nothing but user and assistant messages was ever put under the root.
OnlyAppended(db) ==
    \A i \in DOMAIN db \ {CHAT_DOCMEM_ID} :
        db[i].parentId = CHAT_DOCMEM_ID /\ IsMessageNode(db[i], {"user", "assistant"})

\* buildMessageList has returned a list made for these roles of message
\* nodes: it renders the children of the root in ascending key order, which
\* is the order of creation when only messages were appended.
MessageListFor(roles) ==
    (CalledOp("buildMessageList") /\ last'.result = "ok")
       => /\ \E q \in AscendingChildren(nodes) : Renders(nodes, q, last'.out, roles)
          /\ OnlyAppended(nodes)
                => Renders(nodes, IdList(DOMAIN nodes \ {CHAT_DOCMEM_ID}), last'.out, roles)

\* C37: buildMessageList lists the children of the chat root by ascending
\* order key, which after appendUserMessage / appendAssistantMessage calls
\* only is the order of appending; a message node with role user or
\* assistant gives one {role, content} message, a summary node an assistant
\* tool call followed by the tool response with the same call id, without
\* its children, and every other node gives nothing.
C37_MessageList == [][MessageListFor({"user", "assistant"})]_vars

\* C37 as amended: the same, where a message node with role tool gives one
\* {role: tool, content} message as well.
C37_MessageListWithTool == [][MessageListFor({"user", "assistant", "tool"})]_vars

\* C37 witness: buildMessageList has returned three messages for a summary
\* node that has a child and a message node with role tool after it.
C37_Witness ==
    /\ last.op = "buildMessageList" /\ last.result = "ok"
    /\ Len(last.out) = 3
    /\ "tool_calls" \in DOMAIN last.out[1]
    /\ last.out[3] = [role |-> "tool", content |-> "hello"]
    /\ \E s, m \in DOMAIN nodes :
          /\ IsSummaryNode(nodes[s]) /\ nodes[s].parentId = CHAT_DOCMEM_ID
          /\ nodes[m].parentId = s

\* C38: when createChatSession has completed, the row with the session id is
\* a root with the context chat_session / date / timestamp of that moment,
\* it has no children, and buildMessageList returns no message: nothing of
\* an earlier session under the same id is left below the root.
C38_SessionStartsEmpty ==
    [][(SessionCreated /\ chat'.event = "started")
       => /\ CHAT_DOCMEM_ID \in DOMAIN nodes'
          /\ nodes'[CHAT_DOCMEM_ID].parentId = NoId
          /\ nodes'[CHAT_DOCMEM_ID].contextType = "chat_session"
          /\ nodes'[CHAT_DOCMEM_ID].contextName = "date"
          /\ nodes'[CHAT_DOCMEM_ID].contextValue = toISOString(now)
          /\ ChildIds(nodes', CHAT_DOCMEM_ID) = {}
          /\ _getAllDescendants(nodes', CHAT_DOCMEM_ID).ids = {}
          /\ buildMessageList(nodes') = ReadReturn(<<>>)]_vars

\* C39: when a run of the initialization closure fails, whatever the
\* failure, databaseInitPromise is null afterwards and the next call of
\* initSharedDatabase starts a new initialization; and a Docmem that awaited
\* the failed run fails, it never becomes ready.
C39_FailedInitCleared ==
    [][/\ \A a \in DOMAIN inits :
             (inits[a] = "running" /\ inits'[a] \in FailedInit)
                => /\ databaseInitPromise' = NoPromise
                   /\ initSharedDatabase(sharedDatabase', databaseInitPromise') = "start"
       /\ \A c \in Docmems :
             (/\ docmems[c].pc = "awaiting"
              /\ docmems[c].promise # NoPromise
              /\ inits[docmems[c].promise] \in FailedInit
              /\ docmems'[c] # docmems[c])
                => docmems'[c].pc = "failed"]_vars

====
